---- MODULE Spec2Model ----
(***************************************************************************)
(* A model of the request/response pipeline of the polygon client:         *)
(* the Query builder (src/src/query.rs), the per-endpoint request builders *)
(* (src/src/request/), the output processors (src/src/processor/) and      *)
(* the client that owns the API key (src/src/client.rs), and the tool      *)
(* layer that routes JSON requests to them (src/src/tool_use.rs).          *)
(*                                                                         *)
(* Text (a response body, an error message) is a sequence of tokens: the   *)
(* seven structural characters of JSON are one token each and every other  *)
(* token is a run of characters that contains none of them.                *)
(***************************************************************************)
EXTENDS Integers, Sequences, FiniteSets, TLC

(* ------------------------------ bounds -------------------------------- *)

\* The longest chain of param/params calls on one Query.
MaxParams == 2
\* The longest chain of optional-field setter calls on one endpoint builder.
MaxSetters == 1
\* The width the model gives u32, in bits, in place of the 32 of the code;
\* i32 has the same width, and u64, i64, usize and isize twice that.
U32Bits == 4
\* The most calls of limit on one endpoint builder.
MaxLimits == 2
\* The threads that call initialize, instance and get at the same time.
MaxThreads == 2
\* The most Arc<Polygon> ever made: the default one and those of initialize.
MaxArcs == 3

(* ------------------------- Option<T> as a sequence --------------------- *)

None == <<>>
Some(x) == <<x>>
IsSome(o) == Len(o) = 1
Unwrap(o) == o[1]

SeqToSet(s) == {s[i] : i \in 1..Len(s)}

(* ------------------------------ JSON text ------------------------------ *)

LB == "{"
RB == "}"
LK == "["
RK == "]"
COLON == ":"
COMMA == ","
QT == "\""

\* Tokens serde_json reads as a number, and as a literal.
NumToks == {"0.5", "1", "1.5", "2", "1000", "1700000000000"}
LitToks == {"true", "false", "null"}

\* serde_json::Value.  Every value has the same four fields: t the variant,
\* s the text of a string, number or literal, keys/items the members of an
\* object (items alone: the elements of an array).
JNull == [t |-> "null", s |-> <<>>, keys |-> <<>>, items |-> <<>>]
JStr(s) == [t |-> "str", s |-> s, keys |-> <<>>, items |-> <<>>]
JNum(tok) == [t |-> "num", s |-> <<tok>>, keys |-> <<>>, items |-> <<>>]
JLit(tok) == [t |-> IF tok = "null" THEN "null" ELSE "bool",
              s |-> IF tok = "null" THEN <<>> ELSE <<tok>>,
              keys |-> <<>>, items |-> <<>>]
JArr(items) == [t |-> "arr", s |-> <<>>, keys |-> <<>>, items |-> items]
JObj(keys, items) == [t |-> "obj", s |-> <<>>, keys |-> keys, items |-> items]

ParseFail == [ok |-> FALSE, val |-> JNull, next |-> 0]
ParseOk(v, n) == [ok |-> TRUE, val |-> v, next |-> n]

\* A string starts at s[i] = QT and runs to the next QT.
ParseString(s, i) ==
    LET closing == {j \in (i + 1)..Len(s) : s[j] = QT}
    IN IF closing = {} THEN ParseFail
       ELSE LET j == CHOOSE j \in closing : \A k \in closing : j <= k
            IN ParseOk(JStr(SubSeq(s, i + 1, j - 1)), j + 1)

\* Map::insert: a repeated key keeps its first place and takes the new value.
MapInsert(keys, items, k, v) ==
    IF \E n \in 1..Len(keys) : keys[n] = k
    THEN LET n == CHOOSE n \in 1..Len(keys) : keys[n] = k
         IN [ks |-> keys, is |-> [items EXCEPT ![n] = v]]
    ELSE [ks |-> Append(keys, k), is |-> Append(items, v)]

RECURSIVE ParseValue(_, _)
RECURSIVE ParseMembers(_, _, _, _)
RECURSIVE ParseElements(_, _, _)

ParseValue(s, i) ==
    IF i > Len(s) THEN ParseFail
    ELSE IF s[i] = QT THEN ParseString(s, i)
    ELSE IF s[i] = LB THEN
        IF i + 1 <= Len(s) /\ s[i + 1] = RB
        THEN ParseOk(JObj(<<>>, <<>>), i + 2)
        ELSE ParseMembers(s, i + 1, <<>>, <<>>)
    ELSE IF s[i] = LK THEN
        IF i + 1 <= Len(s) /\ s[i + 1] = RK
        THEN ParseOk(JArr(<<>>), i + 2)
        ELSE ParseElements(s, i + 1, <<>>)
    ELSE IF s[i] \in NumToks THEN ParseOk(JNum(s[i]), i + 1)
    ELSE IF s[i] \in LitToks THEN ParseOk(JLit(s[i]), i + 1)
    ELSE ParseFail

ParseMembers(s, i, keys, items) ==
    IF i > Len(s) \/ s[i] # QT THEN ParseFail
    ELSE LET k == ParseString(s, i)
         IN IF ~k.ok \/ k.next > Len(s) \/ s[k.next] # COLON THEN ParseFail
            ELSE LET v == ParseValue(s, k.next + 1)
                 IN IF ~v.ok \/ v.next > Len(s) THEN ParseFail
                    ELSE LET m == MapInsert(keys, items, k.val.s, v.val)
                         IN IF s[v.next] = COMMA
                            THEN ParseMembers(s, v.next + 1, m.ks, m.is)
                            ELSE IF s[v.next] = RB
                            THEN ParseOk(JObj(m.ks, m.is), v.next + 1)
                            ELSE ParseFail

ParseElements(s, i, items) ==
    LET v == ParseValue(s, i)
    IN IF ~v.ok \/ v.next > Len(s) THEN ParseFail
       ELSE IF s[v.next] = COMMA
       THEN ParseElements(s, v.next + 1, Append(items, v.val))
       ELSE IF s[v.next] = RK
       THEN ParseOk(JArr(Append(items, v.val)), v.next + 1)
       ELSE ParseFail

\* serde_json::from_str: one value, and nothing after it.
FromStr(s) ==
    LET Whole(r) == IF r.ok /\ r.next = Len(s) + 1 THEN Some(r.val) ELSE None
    IN Whole(ParseValue(s, 1))

\* Value::get(key): a member of an object, None for any other value.
JGet(v, key) ==
    IF v.t = "obj" /\ \E n \in 1..Len(v.keys) : v.keys[n] = key
    THEN Some(v.items[CHOOSE n \in 1..Len(v.keys) : v.keys[n] = key])
    ELSE None

\* Value::as_str on an optional value (and_then).
AsStr(o) == IF IsSome(o) /\ Unwrap(o).t = "str" THEN Some(Unwrap(o).s) ELSE None

(* ------------------------------ errors --------------------------------- *)

\* Result<T, Error>.  One record shape for every outcome: tag "Ok" or "Err";
\* an error has its variant (error.rs Error), and for ApiError its status,
\* message and request_id, for Custom and Reqwest its text in message; an Ok
\* has the form of its output ("String", "Decoded", "DataFrame"), the text of
\* a String and the rows of a decoded value or a table.  The Ok of a tool
\* call (tool_use.rs ToolCallResult) has the form "Text" with its text, or
\* "ToolDataFrame" with its data, schema and metadata.
NoResult ==
    [tag |-> "None", variant |-> "", status |-> 0, message |-> <<>>,
     request_id |-> None, form |-> "", text |-> <<>>, rows |-> <<>>,
     data |-> JNull, schema |-> <<>>, metadata |-> None]
Err(variant, status, message, request_id) ==
    [NoResult EXCEPT !.tag = "Err", !.variant = variant, !.status = status,
                     !.message = message, !.request_id = request_id]
ErrMissingApiKey == Err("MissingApiKey", 0, <<>>, None)
ErrApiError(status, message, request_id) ==
    Err("ApiError", status, message, request_id)
ErrCustom(message) == Err("Custom", 0, message, None)
\* An error the transport returns: whatever Error value its get produced.
ErrTransport(e) == Err("Reqwest", 0, <<e>>, None)
OkString(body) == [NoResult EXCEPT !.tag = "Ok", !.form = "String", !.text = body]
OkDecoded(rows) == [NoResult EXCEPT !.tag = "Ok", !.form = "Decoded", !.rows = rows]
OkDataFrame(rows) ==
    [NoResult EXCEPT !.tag = "Ok", !.form = "DataFrame", !.rows = rows]
\* ToolCallResult::Text and ToolCallResult::DataFrame.
OkText(text) == [NoResult EXCEPT !.tag = "Ok", !.form = "Text", !.text = text]
OkToolDataFrame(data, schema, metadata) ==
    [NoResult EXCEPT !.tag = "Ok", !.form = "ToolDataFrame", !.data = data,
                     !.schema = schema, !.metadata = metadata]

(* ---------------------------- the transport ---------------------------- *)

\* What Request::get returns: Ok(response) with status, body and request id,
\* or Err(e).
Statuses == {199, 200, 299, 300, 399, 400, 403, 500}

Str(tok) == <<QT, tok, QT>>
Member(k, v) == Str(k) \o <<COLON>> \o v
Obj1(m) == <<LB>> \o m \o <<RB>>
Obj2(m, n) == <<LB>> \o m \o <<COMMA>> \o n \o <<RB>>

BodyUnauthorized ==
    Obj2(Member("error", Str("unauthorized")), Member("request_id", Str("abc123")))
BodyDouble ==
    Obj1(Member("error", Str("bad ticker"))) \o Obj1(Member("extra", Str("garbage")))
BodyTriple ==
    Obj1(Member("error", Str("first"))) \o Obj1(Member("error", Str("second")))
    \o Obj1(Member("error", Str("third")))
BodyMessage == Obj1(Member("message", Str("not found")))
BodyNotJson == <<"Bad Gateway">>
BodyBraceInString == Obj1(Member("error", <<QT, "a", RB, LB, "b", QT>>))
BodyErrorNotString ==
    Obj2(Member("error", <<"1">>), Member("message", Str("m")))
BodyEmptyObject == <<LB, RB>>
BodyResults ==
    Obj1(Member("results", <<LK>> \o Obj1(Member("o", <<"1">>)) \o <<RK>>))
BodyNoResults == Obj1(Member("not_results", <<LK, RK>>))
\* {"results":[{"o":1,"h":2,"l":0.5,"c":1.5,"v":1000,"t":1700000000000}]}
BodyAggs ==
    Obj1(Member("results",
           <<LK, LB>> \o Member("o", <<"1">>) \o <<COMMA>> \o Member("h", <<"2">>)
           \o <<COMMA>> \o Member("l", <<"0.5">>) \o <<COMMA>>
           \o Member("c", <<"1.5">>) \o <<COMMA>> \o Member("v", <<"1000">>)
           \o <<COMMA>> \o Member("t", <<"1700000000000">>) \o <<RB, RK>>))
\* {"results":[{"o":null,"vw":2}]}
BodyAggNull ==
    Obj1(Member("results",
           <<LK>> \o Obj2(Member("o", <<"null">>), Member("vw", <<"2">>)) \o <<RK>>))
\* {"results":{"name":"n","composite_figi":"f","cik":"c"}}, and without cik.
BodyEvents ==
    Obj1(Member("results",
           <<LB>> \o Member("name", Str("n")) \o <<COMMA>>
           \o Member("composite_figi", Str("f")) \o <<COMMA>>
           \o Member("cik", Str("c")) \o <<RB>>))
BodyEventsNoCik ==
    Obj1(Member("results",
           Obj2(Member("name", Str("n")), Member("composite_figi", Str("f")))))
\* {"results":[{"ticker":"MSFT"},{"ticker":"GOOG"}]}, and the same with
\* "status":"OK" after the results.
BodyRelated ==
    Obj1(Member("results",
           <<LK>> \o Obj1(Member("ticker", Str("MSFT"))) \o <<COMMA>>
           \o Obj1(Member("ticker", Str("GOOG"))) \o <<RK>>))
BodyRelatedStatus ==
    Obj2(Member("results",
           <<LK>> \o Obj1(Member("ticker", Str("MSFT"))) \o <<COMMA>>
           \o Obj1(Member("ticker", Str("GOOG"))) \o <<RK>>),
         Member("status", Str("OK")))

Bodies ==
    {BodyUnauthorized, BodyDouble, BodyTriple, BodyMessage, BodyNotJson, BodyBraceInString,
     BodyErrorNotString, BodyEmptyObject, BodyResults, BodyNoResults,
     BodyAggs, BodyAggNull, BodyEvents, BodyEventsNoCik, BodyRelated,
     BodyRelatedStatus}

RequestIds == {None, Some(<<"hdr-1">>)}
TransportErrors == {"timeout"}

HttpResponse(status, body, request_id) ==
    [ok |-> TRUE, status |-> status, body |-> body, request_id |-> request_id,
     err |-> ""]
TransportFailure(e) ==
    [ok |-> FALSE, status |-> 0, body |-> <<>>, request_id |-> None, err |-> e]
TransportResults ==
    {HttpResponse(st, b, id) : st \in Statuses, b \in Bodies, id \in RequestIds}
    \cup {TransportFailure(e) : e \in TransportErrors}

(* ------------------------------ decoding ------------------------------- *)

\* decoder::run(serde_json::from_str, decoder_fn, json) with a decoder of the
\* shape every decoder of the crate has: map(value)?, then
\* required("results", sequence(|v| map(v)? ...)).
DecodeFail(msg) == [ok |-> FALSE, rows |-> <<>>, msg |-> msg]
DecodeRun(json) ==
    LET Results(r) ==
            IF ~IsSome(r) THEN DecodeFail(<<"missing field ", "results">>)
            ELSE IF Unwrap(r).t # "arr" THEN DecodeFail(<<"expected a sequence">>)
            ELSE IF \E n \in 1..Len(Unwrap(r).items) :
                       Unwrap(r).items[n].t # "obj"
            THEN DecodeFail(<<"expected a map">>)
            ELSE [ok |-> TRUE, rows |-> Unwrap(r).items, msg |-> <<>>]
        Response(v) ==
            IF ~IsSome(v) THEN DecodeFail(<<"invalid JSON">>)
            ELSE IF Unwrap(v).t # "obj" THEN DecodeFail(<<"expected a map">>)
            ELSE Results(JGet(Unwrap(v), <<"results">>))
    IN Response(FromStr(json))

\* What a decoder of one value returns: the value, or a message.
DecOk(val) == [ok |-> TRUE, val |-> val, msg |-> <<>>]
DecErr(msg) == [ok |-> FALSE, val |-> <<>>, msg |-> msg]

\* The number tokens that are integers.
IntToks == {"1", "2", "1000", "1700000000000"}

\* decode::f64, decode::i64, decode::bool and decode::string of a value: its
\* text.  A JSON integer is a number to f64; a fraction is none to i64.
Scalar(type, v) ==
    IF \/ type = "f64" /\ v.t = "num"
       \/ type = "i64" /\ v.t = "num" /\ v.s[1] \in IntToks
       \/ type = "bool" /\ v.t = "bool"
       \/ type = "string" /\ v.t = "str"
    THEN DecOk(v.s)
    ELSE DecErr(<<"expected ", type>>)

\* Map::required(key, decoder): the field must be there.
MapRequired(obj, key, type) ==
    IF ~IsSome(JGet(obj, <<key>>)) THEN DecErr(<<"missing field ", key>>)
    ELSE Scalar(type, Unwrap(JGet(obj, <<key>>)))

\* Map::optional(key, decoder): None for a field that is absent or null.
MapOptional(obj, key, type) ==
    IF ~IsSome(JGet(obj, <<key>>)) \/ Unwrap(JGet(obj, <<key>>)).t = "null"
    THEN DecOk(None)
    ELSE LET d == Scalar(type, Unwrap(JGet(obj, <<key>>)))
         IN IF d.ok THEN DecOk(Some(d.val)) ELSE d

\* The first failure among the outcomes of the fields, in field order.
FirstFailure(ds) ==
    ds[CHOOSE i \in 1..Len(ds) : ~ds[i].ok /\ \A j \in 1..(i - 1) : ds[j].ok]
AllOk(ds) == \A i \in 1..Len(ds) : ds[i].ok

\* Mutant of DecodeAgg: vwap is read from "v" instead of "vw".
DecodeAggVwapFromV(v) ==
    LET Agg(ds) ==
            IF ~AllOk(ds) THEN FirstFailure(ds)
            ELSE DecOk([open |-> ds[1].val, high |-> ds[2].val, low |-> ds[3].val,
                        close |-> ds[4].val, volume |-> ds[5].val,
                        vwap |-> ds[6].val, timestamp |-> ds[7].val,
                        transactions |-> ds[8].val, otc |-> ds[9].val])
    IN IF v.t # "obj" THEN DecErr(<<"expected a map">>)
       ELSE Agg(<<MapOptional(v, "o", "f64"), MapOptional(v, "h", "f64"),
                  MapOptional(v, "l", "f64"), MapOptional(v, "c", "f64"),
                  MapOptional(v, "v", "f64"), MapOptional(v, "v", "f64"),
                  MapOptional(v, "t", "i64"), MapOptional(v, "n", "i64"),
                  MapOptional(v, "otc", "bool")>>)

\* aggregates.rs 96-108: the decoder of one Agg.
DecodeAgg(v) ==
    LET Agg(ds) ==
            IF ~AllOk(ds) THEN FirstFailure(ds)
            ELSE DecOk([open |-> ds[1].val, high |-> ds[2].val, low |-> ds[3].val,
                        close |-> ds[4].val, volume |-> ds[5].val,
                        vwap |-> ds[6].val, timestamp |-> ds[7].val,
                        transactions |-> ds[8].val, otc |-> ds[9].val])
    IN IF v.t # "obj" THEN DecErr(<<"expected a map">>)
       ELSE Agg(<<MapOptional(v, "o", "f64"), MapOptional(v, "h", "f64"),
                  MapOptional(v, "l", "f64"), MapOptional(v, "c", "f64"),
                  MapOptional(v, "v", "f64"), MapOptional(v, "vw", "f64"),
                  MapOptional(v, "t", "i64"), MapOptional(v, "n", "i64"),
                  MapOptional(v, "otc", "bool")>>)

\* rest/decoded/tickers.rs: decode::ticker_change, ticker_change_event and
\* ticker_change_results.
DecodeTickerChange(v) ==
    IF v.t # "obj" THEN DecErr(<<"expected a map">>)
    ELSE LET d == MapRequired(v, "ticker", "string")
         IN IF d.ok THEN DecOk([ticker |-> d.val]) ELSE d
DecodeTickerChangeEvent(v) ==
    LET Event(ds) ==
            IF ~AllOk(ds) THEN FirstFailure(ds)
            ELSE DecOk([event_type |-> ds[1].val, date |-> ds[2].val,
                        ticker_change |-> ds[3].val])
        Required(tc) ==
            IF ~IsSome(tc) THEN DecErr(<<"missing field ", "ticker_change">>)
            ELSE DecodeTickerChange(Unwrap(tc))
    IN IF v.t # "obj" THEN DecErr(<<"expected a map">>)
       ELSE Event(<<MapRequired(v, "type", "string"),
                    MapRequired(v, "date", "string"),
                    Required(JGet(v, <<"ticker_change">>))>>)
DecodeTickerChangeResults(v) ==
    LET Events(es) ==
            IF ~AllOk(es) THEN FirstFailure(es)
            ELSE DecOk(Some([n \in 1..Len(es) |-> es[n].val]))
        Optional(ev) ==
            IF ~IsSome(ev) \/ Unwrap(ev).t = "null" THEN DecOk(None)
            ELSE IF Unwrap(ev).t # "arr" THEN DecErr(<<"expected a sequence">>)
            ELSE Events([n \in 1..Len(Unwrap(ev).items) |->
                           DecodeTickerChangeEvent(Unwrap(ev).items[n])])
        Results(ds) ==
            IF ~AllOk(ds) THEN FirstFailure(ds)
            ELSE DecOk([name |-> ds[1].val, composite_figi |-> ds[2].val,
                        cik |-> ds[3].val, events |-> ds[4].val])
    IN IF v.t # "obj" THEN DecErr(<<"expected a map">>)
       ELSE Results(<<MapRequired(v, "name", "string"),
                      MapRequired(v, "composite_figi", "string"),
                      MapRequired(v, "cik", "string"),
                      Optional(JGet(v, <<"events">>))>>)

\* decoder::run with the decoder of Aggregates::decoded, and with
\* decode::events: map(value)?, then required("results", ..).
DecodeAggs(json) ==
    LET Rows(ds) ==
            IF ~AllOk(ds) THEN DecodeFail(FirstFailure(ds).msg)
            ELSE [ok |-> TRUE, rows |-> [n \in 1..Len(ds) |-> ds[n].val],
                  msg |-> <<>>]
        Results(r) ==
            IF ~IsSome(r) THEN DecodeFail(<<"missing field ", "results">>)
            ELSE IF Unwrap(r).t # "arr" THEN DecodeFail(<<"expected a sequence">>)
            ELSE Rows([n \in 1..Len(Unwrap(r).items) |->
                         DecodeAgg(Unwrap(r).items[n])])
        Response(v) ==
            IF ~IsSome(v) THEN DecodeFail(<<"invalid JSON">>)
            ELSE IF Unwrap(v).t # "obj" THEN DecodeFail(<<"expected a map">>)
            ELSE Results(JGet(Unwrap(v), <<"results">>))
    IN Response(FromStr(json))
DecodeEvents(json) ==
    LET Decoded(d) ==
            IF ~d.ok THEN DecodeFail(d.msg)
            ELSE [ok |-> TRUE, rows |-> <<d.val>>, msg |-> <<>>]
        Results(r) ==
            IF ~IsSome(r) THEN DecodeFail(<<"missing field ", "results">>)
            ELSE Decoded(DecodeTickerChangeResults(Unwrap(r)))
        Response(v) ==
            IF ~IsSome(v) THEN DecodeFail(<<"invalid JSON">>)
            ELSE IF Unwrap(v).t # "obj" THEN DecodeFail(<<"expected a map">>)
            ELSE Results(JGet(Unwrap(v), <<"results">>))
    IN Response(FromStr(json))

\* The decoder function a builder's decoded() stores.
DecoderFn(kind) ==
    IF kind = "Aggregates" THEN "aggs"
    ELSE IF kind = "Events" THEN "events"
    ELSE "results"
RunDecoder(decoder_fn, json) ==
    IF decoder_fn = "aggs" THEN DecodeAggs(json)
    ELSE IF decoder_fn = "events" THEN DecodeEvents(json)
    ELSE DecodeRun(json)

(* --------------------------- output processors ------------------------ *)

\* The ApiError the three processors build from a response whose status is
\* not 200: the header's request id, the status, and the body as message.
ProcessorApiError(resp) == ErrApiError(resp.status, resp.body, resp.request_id)

\* processor/raw.rs: Raw::process.
RawProcess(response) ==
    IF ~response.ok THEN ErrTransport(response.err)
    ELSE IF response.status # 200 THEN ProcessorApiError(response)
    ELSE OkString(response.body)

\* processor/decoder.rs: Decoder::process.
DecoderProcess(decoder_fn, response) ==
    IF ~response.ok THEN ErrTransport(response.err)
    ELSE IF response.status # 200 THEN ProcessorApiError(response)
    ELSE LET Decoded(d) ==
                 IF d.ok THEN OkDecoded(d.rows)
                 ELSE ErrCustom(<<"Decode error: ">> \o d.msg)
         IN Decoded(RunDecoder(decoder_fn, response.body))

\* JsonReader::finish on the serialized results: one row per element of an
\* array of objects, one row for a single object.
TableRows(results) ==
    IF results.t = "arr" /\ \A n \in 1..Len(results.items) : results.items[n].t = "obj"
    THEN Some(results.items)
    ELSE IF results.t = "obj" THEN Some(<<results>>)
    ELSE None

\* Mutant of TableProcess: a body without results gives an empty table.
TableProcessEmptyOnMissing(response) ==
    LET Table(rows) ==
            IF IsSome(rows) THEN OkDataFrame(Unwrap(rows))
            ELSE ErrCustom(<<"Polars error: ", "not a table">>)
        Results(results) ==
            IF ~IsSome(results) THEN OkDataFrame(<<>>)
            ELSE Table(TableRows(Unwrap(results)))
        Body(v) ==
            IF ~IsSome(v) THEN ErrCustom(<<"invalid JSON">>)
            ELSE Results(JGet(Unwrap(v), <<"results">>))
    IN IF ~response.ok THEN ErrTransport(response.err)
       ELSE IF response.status # 200 THEN ProcessorApiError(response)
       ELSE Body(FromStr(response.body))

\* processor/table.rs: Table::process.
TableProcess(response) ==
    LET Table(rows) ==
            IF IsSome(rows) THEN OkDataFrame(Unwrap(rows))
            ELSE ErrCustom(<<"Polars error: ", "not a table">>)
        Results(results) ==
            IF ~IsSome(results) THEN ErrCustom(<<"Missing 'results' field">>)
            ELSE Table(TableRows(Unwrap(results)))
        Body(v) ==
            IF ~IsSome(v) THEN ErrCustom(<<"invalid JSON">>)
            ELSE Results(JGet(Unwrap(v), <<"results">>))
    IN IF ~response.ok THEN ErrTransport(response.err)
       ELSE IF response.status # 200 THEN ProcessorApiError(response)
       ELSE Body(FromStr(response.body))

Processors == {"Raw", "Decoder", "Table"}

\* self.processor.process(response), by the builder's processor.
Process(processor, decoder_fn, response) ==
    IF processor = "Raw" THEN RawProcess(response)
    ELSE IF processor = "Decoder" THEN DecoderProcess(decoder_fn, response)
    ELSE TableProcess(response)

(* --------------------------------- Query ------------------------------- *)

ApiKeyName == "apiKey"

\* decoder::Value of a parameter: encode::string(..), encode::bool(..), and
\* the value an absent optional encodes to.  s is the text the value is
\* written as.
VString(s) == [t |-> "string", s |-> s]
VBool(b) == [t |-> "bool", s |-> IF b THEN <<"true">> ELSE <<"false">>]
VNull == [t |-> "null", s |-> <<>>]

\* query.rs 116: the names in params.
Provided(params) == {params[i][1] : i \in 1..Len(params)}

(* ------------------------------- URL text ------------------------------ *)

\* The text of a URL is a sequence of tokens too: each character that the
\* query-string syntax gives a meaning is one token, every other token is a
\* run of unreserved characters.

\* form_urlencoded::byte_serialize, as serde_urlencoded applies it to names
\* and values: a space becomes "+", every other reserved byte its %XX.
ByteSerialize(tok) ==
    CASE tok = " " -> "+"
      [] tok = "&" -> "%26"
      [] tok = "=" -> "%3D"
      [] tok = "?" -> "%3F"
      [] tok = "#" -> "%23"
      [] tok = "+" -> "%2B"
      [] tok = "%" -> "%25"
      [] OTHER -> tok

UrlEncode(text) == [i \in 1..Len(text) |-> ByteSerialize(text[i])]

\* decoder::encode::map(params): a map keyed by name, so one entry per
\* name, holding the value of the last pair pushed under that name.
LastIndex(params, k) ==
    CHOOSE i \in 1..Len(params) :
        /\ params[i][1] = k
        /\ \A j \in 1..Len(params) : params[j][1] = k => j <= i
EncodeMap(params) ==
    [k \in Provided(params) |-> params[LastIndex(params, k)][2]]

\* serde_urlencoded::to_string(&Value::from(map)): the entries in the
\* order the map yields them, name=value joined by "&"; an entry whose value
\* is None is left out.
RECURSIVE ToQueryString(_, _)
ToQueryString(order, map) ==
    IF order = <<>> THEN <<>>
    ELSE LET k == Head(order)
             rest == ToQueryString(Tail(order), map)
         IN IF map[k].t = "null" THEN rest
            ELSE <<k, "=">> \o UrlEncode(map[k].s)
                 \o (IF rest = <<>> THEN <<>> ELSE <<"&">> \o rest)

\* query.rs 147: format!("{}?{}", self.base_url, query_string).
QueryUrl(base_url, query_string) == base_url \o <<"?">> \o query_string

\* params.join("&") of the strings format!("{name}={value}") an endpoint
\* builder pushes.
RECURSIVE JoinPairs(_)
JoinPairs(pairs) ==
    IF pairs = <<>> THEN <<>>
    ELSE <<pairs[1][1], "=">> \o pairs[1][2]
         \o (IF Len(pairs) = 1 THEN <<>> ELSE <<"&">> \o JoinPairs(Tail(pairs)))

\* Mutant of FindDup: the last "}{" instead of the first.
FindLastDup(body) ==
    LET hits == {i \in 1..(Len(body) - 1) : body[i] = RB /\ body[i + 1] = LB}
    IN IF hits = {} THEN 0 ELSE CHOOSE i \in hits : \A j \in hits : i >= j

\* body.find("}{"): the index of the first "}" that a "{" follows, 0 if none.
FindDup(body) ==
    LET hits == {i \in 1..(Len(body) - 1) : body[i] = RB /\ body[i + 1] = LB}
    IN IF hits = {} THEN 0 ELSE CHOOSE i \in hits : \A j \in hits : i <= j

\* query.rs 156-160: &body[..dup_pos + 1], or the whole body.
JsonToParse(body) ==
    IF FindDup(body) # 0 THEN SubSeq(body, 1, FindDup(body)) ELSE body

\* Mutant of ErrorMessage: an error field that is no string is passed over
\* for the message field.
ErrorMessageFirstString(value) ==
    IF IsSome(AsStr(JGet(value, <<"error">>)))
    THEN Unwrap(AsStr(JGet(value, <<"error">>)))
    ELSE IF IsSome(AsStr(JGet(value, <<"message">>)))
    THEN Unwrap(AsStr(JGet(value, <<"message">>)))
    ELSE <<"Unknown error">>

\* query.rs 163-168: the error field, or else the message field, if a string.
ErrorMessage(value) ==
    LET field == IF IsSome(JGet(value, <<"error">>)) THEN JGet(value, <<"error">>)
                 ELSE JGet(value, <<"message">>)
    IN IF IsSome(AsStr(field)) THEN Unwrap(AsStr(field)) ELSE <<"Unknown error">>

\* Mutant of QueryClassify: every status outside 2xx is an error.
QueryClassifyOnly2xx(status, body) ==
    IF status < 200 \/ status >= 300
    THEN ErrCustom(<<"HTTP ", ToString(status), ": ">> \o body)
    ELSE OkString(body)

\* query.rs 150-186: the status check of execute_request.
QueryClassify(status, body) ==
    IF status >= 400
    THEN LET Error(value) ==
                 IF IsSome(value)
                 THEN ErrApiError(status, ErrorMessage(Unwrap(value)),
                                  AsStr(JGet(Unwrap(value), <<"request_id">>)))
                 ELSE ErrCustom(<<"HTTP ", ToString(status), ": ">> \o body)
         IN Error(FromStr(JsonToParse(body)))
    ELSE OkString(body)

\* Every order a HashSet may be iterated in.
RECURSIVE Orders(_)
Orders(S) ==
    IF S = {} THEN {<<>>}
    ELSE UNION {{<<x>> \o o : o \in Orders(S \ {x})} : x \in S}

\* Mutant of Missing: the difference taken the other way round.
MissingReversed(required, provided) == provided \ required

\* query.rs 116-117: required.difference(&provided).
Missing(required, provided) == required \ provided

\* Mutant of Invalid: an empty allow-list allows nothing.
InvalidEvenIfEmpty(allowed, provided) == (provided \ allowed) \ {ApiKeyName}

\* query.rs 126-131: provided.difference(&allowed) without apiKey, computed
\* only when the allow-list is not empty.
Invalid(allowed, provided) ==
    IF allowed = {} THEN {} ELSE (provided \ allowed) \ {ApiKeyName}

\* What execute_request does before it awaits the transport: the set of its
\* possible outcomes (several when a message lists a HashSet).  An outcome
\* either sends the request to url or ends the call with err.
Outcome(send, url, err) == [send |-> send, url |-> url, err |-> err]
NoUrl == <<>>

\* Mutant of QueryPreChecks: the allow-list is checked before the required
\* names.
QueryPreChecksAllowFirst(b, key) ==
    IF ~IsSome(key) THEN {Outcome(FALSE, NoUrl, ErrMissingApiKey)}
    ELSE LET params == Append(b.params, <<ApiKeyName, VString(Unwrap(key))>>)
             provided == Provided(params)
             missing == Missing(b.required, provided)
             invalid == Invalid(b.allowed, provided)
         IN IF invalid # {}
            THEN {Outcome(FALSE, NoUrl,
                          ErrCustom(<<"Invalid parameters: ">> \o i
                                    \o <<". Allowed: ">> \o a))
                    : i \in Orders(invalid), a \in Orders(b.allowed)}
            ELSE IF missing # {}
            THEN {Outcome(FALSE, NoUrl,
                          ErrCustom(<<"Missing required parameters: ">> \o m))
                    : m \in Orders(missing)}
            ELSE {Outcome(TRUE,
                          QueryUrl(b.base_url,
                                   ToQueryString(order, EncodeMap(params))),
                          NoResult)
                    : order \in Orders(provided)}

QueryPreChecks(b, key) ==
    IF ~IsSome(key) THEN {Outcome(FALSE, NoUrl, ErrMissingApiKey)}
    ELSE LET params == Append(b.params, <<ApiKeyName, VString(Unwrap(key))>>)
             provided == Provided(params)
             missing == Missing(b.required, provided)
             invalid == Invalid(b.allowed, provided)
         IN IF missing # {}
            THEN {Outcome(FALSE, NoUrl,
                          ErrCustom(<<"Missing required parameters: ">> \o m))
                    : m \in Orders(missing)}
            ELSE IF invalid # {}
            THEN {Outcome(FALSE, NoUrl,
                          ErrCustom(<<"Invalid parameters: ">> \o i
                                    \o <<". Allowed: ">> \o a))
                    : i \in Orders(invalid), a \in Orders(b.allowed)}
            ELSE {Outcome(TRUE,
                          QueryUrl(b.base_url,
                                   ToQueryString(order, EncodeMap(params))),
                          NoResult)
                    : order \in Orders(provided)}

\* Mutant of QueryFinish: a transport failure is reported as a Custom error.
QueryFinishWrapsTransport(b, response) ==
    IF ~response.ok THEN ErrCustom(<<"request failed: ", response.err>>)
    ELSE LET Decoded(d) == IF d.ok THEN OkDecoded(d.rows) ELSE ErrCustom(d.msg)
             Classified(r) ==
                 IF r.tag = "Err" \/ ~b.typed THEN r
                 ELSE Decoded(DecodeRun(r.text))
         IN Classified(QueryClassify(response.status, response.body))

\* What get does with the transport's answer: execute_request from its await
\* on (query.rs 148-186), then, on a typed Query, decoder::run (283-284).
QueryFinish(b, response) ==
    IF ~response.ok THEN ErrTransport(response.err)
    ELSE LET Decoded(d) == IF d.ok THEN OkDecoded(d.rows) ELSE ErrCustom(d.msg)
             Classified(r) ==
                 IF r.tag = "Err" \/ ~b.typed THEN r
                 ELSE Decoded(DecodeRun(r.text))
         IN Classified(QueryClassify(response.status, response.body))

(* ----------------------------- common types --------------------------- *)

\* A SortOrder is a sequence: the name of its variant, then the text a
\* Custom holds.

\* str::to_lowercase, token by token: the tokens of the model that have an
\* upper-case letter, each with its lower-case form.
ToLowercase(text) ==
    LET Lower(tok) ==
            CASE tok = "Asc" -> "asc"
              [] tok = "Desc" -> "desc"
              [] tok = "ASC" -> "asc"
              [] tok = "Custom(" -> "custom("
              [] tok = "Timestamp" -> "timestamp"
              [] tok = "MINUTE" -> "minute"
              [] tok = "Minute" -> "minute"
              [] tok = "MIN" -> "min"
              [] tok = "Min" -> "min"
              [] tok = "HOUR" -> "hour"
              [] tok = "Hour" -> "hour"
              [] tok = "HR" -> "hr"
              [] tok = "Hr" -> "hr"
              [] tok = "H" -> "h"
              [] tok = "DAY" -> "day"
              [] tok = "Day" -> "day"
              [] tok = "D" -> "d"
              [] tok = "DY" -> "dy"
              [] tok = "Dy" -> "dy"
              [] tok = "WEEK" -> "week"
              [] tok = "Week" -> "week"
              [] tok = "W" -> "w"
              [] tok = "WK" -> "wk"
              [] tok = "Wk" -> "wk"
              [] tok = "MONTH" -> "month"
              [] tok = "Month" -> "month"
              [] tok = "MO" -> "mo"
              [] tok = "Mo" -> "mo"
              [] tok = "MTH" -> "mth"
              [] tok = "Mth" -> "mth"
              [] tok = "QUARTER" -> "quarter"
              [] tok = "Quarter" -> "quarter"
              [] tok = "Q" -> "q"
              [] tok = "QRTR" -> "qrtr"
              [] tok = "Qrtr" -> "qrtr"
              [] tok = "QTR" -> "qtr"
              [] tok = "Qtr" -> "qtr"
              [] tok = "YEAR" -> "year"
              [] tok = "Year" -> "year"
              [] tok = "Y" -> "y"
              [] tok = "YR" -> "yr"
              [] tok = "Yr" -> "yr"
              [] tok = "FORTNIGHT" -> "fortnight"
              [] tok = "Fortnight" -> "fortnight"
              [] OTHER -> tok
    IN [i \in 1..Len(text) |-> Lower(text[i])]

\* From<&str> for SortOrder.
SortOrderFrom(value) ==
    IF value = <<"asc">> THEN <<"Asc">>
    ELSE IF value = <<"desc">> THEN <<"Desc">>
    ELSE <<"Custom">> \o value

\* From<SortOrder> for String.
SortOrderIntoString(value) ==
    IF value = <<"Asc">> THEN <<"asc">>
    ELSE IF value = <<"Desc">> THEN <<"desc">>
    ELSE Tail(value)

\* format!("{value:?}") of the derived Debug of SortOrder: the name of a unit
\* variant; Custom("s") with the Debug of the string, which is quoted, a
\* quote and a backslash in it escaped.
SortOrderDebug(value) ==
    LET Escape(tok) ==
            IF tok = QT THEN "\\\"" ELSE IF tok = "\\" THEN "\\\\" ELSE tok
    IN IF Head(value) = "Custom"
       THEN <<"Custom(", QT>>
            \o [i \in 1..(Len(value) - 1) |-> Escape(value[i + 1])]
            \o <<QT, ")">>
       ELSE value

\* FromStr for Timespan, of a string that is one token: Ok of a variant, or
\* the Err.
TimespanFromStr(s_in) ==
    LET Ok(variant) == [ok |-> TRUE, val |-> variant, err |-> NoResult]
        Match(s) ==
            CASE s \in {<<"minute">>, <<"min">>} -> Ok("Minute")
              [] s \in {<<"hour">>, <<"hr">>, <<"h">>} -> Ok("Hour")
              [] s \in {<<"day">>, <<"d">>, <<"dy">>} -> Ok("Day")
              [] s \in {<<"week">>, <<"w">>, <<"wk">>} -> Ok("Week")
              [] s \in {<<"month">>, <<"mo">>, <<"mth">>} -> Ok("Month")
              [] s \in {<<"quarter">>, <<"q">>, <<"qrtr">>, <<"qtr">>} ->
                    Ok("Quarter")
              [] s \in {<<"year">>, <<"y">>, <<"yr">>} -> Ok("Year")
              [] OTHER ->
                    [ok |-> FALSE, val |-> "",
                     err |-> ErrCustom(<<"Invalid timespan: ">> \o s)]
    IN Match(ToLowercase(s_in))

\* Mutant of TableAggregates: the timespan is parsed with Timespan::from_str,
\* Day where that fails.
TableAggregatesFromStr(timespan) ==
    IF TimespanFromStr(timespan).ok THEN TimespanFromStr(timespan).val
    ELSE "Day"

\* rest::table::aggs::aggregates: the Timespan it makes of its timespan
\* string, with which it calls Aggregates::new(..).as_dataframe().
TableAggregates(timespan) ==
    LET Match(s) ==
            CASE s = <<"minute">> -> "Minute"
              [] s = <<"hour">> -> "Hour"
              [] s = <<"day">> -> "Day"
              [] s = <<"week">> -> "Week"
              [] s = <<"month">> -> "Month"
              [] s = <<"quarter">> -> "Quarter"
              [] s = <<"year">> -> "Year"
              [] OTHER -> "Day"
    IN Match(ToLowercase(timespan))

\* str::parse::<u32> of a text given character by character: at is "start"
\* before anything is read, "sign" after a leading "+", "digits" after a
\* digit; n is the number read so far.  Empty text, a sign alone, a character
\* that is no digit and a number above u32::MAX are errors (None).
RECURSIVE ParseU32(_, _, _)
ParseU32(src, at, n) ==
    LET Digits == <<"0", "1", "2", "3", "4", "5", "6", "7", "8", "9">>
        Digit(c) == (CHOOSE d \in 1..10 : Digits[d] = c) - 1
    IN IF src = <<>> THEN (IF at = "digits" THEN Some(n) ELSE None)
       ELSE IF at = "start" /\ Head(src) = "+" THEN ParseU32(Tail(src), "sign", n)
       ELSE IF Head(src) \notin SeqToSet(Digits) THEN None
       ELSE IF n * 10 + Digit(Head(src)) > 2 ^ U32Bits - 1 THEN None
       ELSE ParseU32(Tail(src), "digits", n * 10 + Digit(Head(src)))

\* Mutant of LimitFrom: a string that does not parse gives Some(0).
LimitFromDefaults(value) ==
    LET LimitSome(v) == [variant |-> "Some", v |-> v]
        Parsed(p) == IF IsSome(p) THEN LimitSome(Unwrap(p)) ELSE LimitSome(0)
        Bits == IF value.type \in {"u32", "i32"} THEN U32Bits ELSE 2 * U32Bits
        Pattern == IF value.n >= 0 THEN value.n ELSE value.n + 2 ^ Bits
    IN IF value.type = "str" THEN Parsed(ParseU32(value.s, "start", 0))
       ELSE LimitSome(Pattern % (2 ^ U32Bits))

\* Mutant of LimitFrom: u32::try_from in place of `as u32`, an integer that
\* does not fit a u32 giving None.
LimitFromChecked(value) ==
    LET LimitSome(v) == [variant |-> "Some", v |-> v]
        LimitNone == [variant |-> "None", v |-> 0]
        Parsed(p) == IF IsSome(p) THEN LimitSome(Unwrap(p)) ELSE LimitNone
    IN IF value.type = "str" THEN Parsed(ParseU32(value.s, "start", 0))
       ELSE IF value.n \in 0..(2 ^ U32Bits - 1) THEN LimitSome(value.n)
       ELSE LimitNone

\* Limit::from of a value [type, s, n]: of a &str or String, s is its text;
\* of an integer type (limit_from!), n is the integer and `n as u32` keeps the
\* low bits of its two's-complement pattern.  The 64-bit types are twice as
\* wide as u32.  A Limit is [variant, v], v the u32 of Some.
LimitFrom(value) ==
    LET LimitSome(v) == [variant |-> "Some", v |-> v]
        LimitNone == [variant |-> "None", v |-> 0]
        Parsed(p) == IF IsSome(p) THEN LimitSome(Unwrap(p)) ELSE LimitNone
        Bits == IF value.type \in {"u32", "i32"} THEN U32Bits ELSE 2 * U32Bits
        Pattern == IF value.n >= 0 THEN value.n ELSE value.n + 2 ^ Bits
    IN IF value.type = "str" THEN Parsed(ParseU32(value.s, "start", 0))
       ELSE LimitSome(Pattern % (2 ^ U32Bits))

\* From<Limit> for Option<u32>.
LimitIntoOption(value) ==
    IF value.variant = "None" THEN None ELSE Some(value.v)

(* -------------------------- endpoint builders -------------------------- *)

\* The constructors of the per-endpoint builders (request/aggs, request/tickers,
\* request/financials); Financials has four.
FinancialsKinds ==
    {"balance_sheets", "cash_flow_statements", "income_statements", "ratios"}
EndpointKinds ==
    {"Aggregates", "PreviousClose", "GroupedDaily", "DailyOpenClose", "All",
     "Details", "Related", "Types", "Events", "News"} \cup FinancialsKinds

\* The optional fields of each builder, under the names and in the order its
\* get writes them to the query string.
KindFields(kind) ==
    CASE kind = "Aggregates" -> <<"adjusted", "sort", "limit">>
      [] kind = "PreviousClose" -> <<"adjusted">>
      [] kind = "GroupedDaily" -> <<"adjusted", "include_otc">>
      [] kind = "DailyOpenClose" -> <<"adjusted">>
      [] kind = "All" ->
            <<"ticker", "type", "market", "exchange", "limit", "sort", "order">>
      [] kind = "Details" -> <<"date">>
      [] kind = "Related" -> <<>>
      [] kind = "Types" -> <<"asset_class", "locale">>
      [] kind = "Events" -> <<"types">>
      [] kind = "News" -> <<"ticker", "limit", "order">>
      [] kind \in FinancialsKinds ->
            <<"ticker", "cik", "filing_date", "period_of_report_date", "limit",
              "order">>

\* The optional fields of a builder are the set of <<name, text>> of those
\* that are Some; Field is one field as an Option, SetTo the assignment
\* self.field = Some(text).
Field(fields, f) ==
    IF \E p \in fields : p[1] = f
    THEN Some((CHOOSE p \in fields : p[1] = f)[2])
    ELSE None
SetTo(fields, f, text) == {p \in fields : p[1] # f} \cup {<<f, text>>}

\* A setter that assigns only a Some: a None leaves the field as it was.
AssignSome(fields, f, o) ==
    IF IsSome(o) THEN SetTo(fields, f, Unwrap(o)) ELSE fields

\* self.<f> = o, the assignment of an Option to the field: a None clears it.
Assign(fields, f, o) ==
    IF IsSome(o) THEN SetTo(fields, f, Unwrap(o))
    ELSE {p \in fields : p[1] # f}

\* The type of each optional field: Option<bool>, Option<u32>,
\* Option<SortOrder> or Option<String>.
FieldType(kind, f) ==
    IF f \in {"adjusted", "include_otc"} THEN "bool"
    ELSE IF f = "limit" THEN "u32"
    ELSE IF f = "order" \/ (f = "sort" /\ kind = "Aggregates") THEN "SortOrder"
    ELSE "String"

\* The arguments the setter of a field is called with: a bool; for limit
\* (impl Into<Limit>) a numeric and an unparseable string, a u32 and a
\* negative i32; for Aggregates::sort (impl Into<SortOrder>) the strings asc,
\* desc and one more, and for order the SortOrder of each; for a String a
\* plain text and one with reserved characters.
FieldValues(kind, f) ==
    LET SortStrings == {<<"asc">>, <<"desc">>, <<"Timestamp">>}
    IN CASE FieldType(kind, f) = "bool" -> {<<"true">>}
         [] FieldType(kind, f) = "u32" ->
               {[type |-> "str", s |-> <<"1", "0">>, n |-> 0],
                [type |-> "str", s |-> <<"a", "b", "c">>, n |-> 0],
                [type |-> "u32", s |-> <<>>, n |-> 10],
                [type |-> "i32", s |-> <<>>, n |-> -1]}
         [] FieldType(kind, f) = "SortOrder" ->
               IF f = "sort" THEN SortStrings
               ELSE {SortOrderFrom(s) : s \in SortStrings}
         [] OTHER -> {<<"x">>, <<"a", "&", "limit", "=", "1">>}

\* The path each get formats, for the ticker AAPL and the date 2024-01-01.
EndpointPath(b) ==
    CASE b.kind = "Aggregates" ->
            <<"/v2/aggs/ticker/", "AAPL", "/range/", "1", "/", "day", "/",
              "2024-01-01", "/", "2024-01-05">>
      [] b.kind = "PreviousClose" -> <<"/v2/aggs/ticker/", "AAPL", "/prev">>
      [] b.kind = "GroupedDaily" ->
            <<"/v2/aggs/grouped/locale/us/market/stocks/", "2024-01-01">>
      [] b.kind = "DailyOpenClose" ->
            <<"/v2/aggs/ticker/", "AAPL", "/range/1/day/", "2024-01-01", "/",
              "2024-01-01">>
      [] b.kind = "All" -> <<"/v3/reference/tickers">>
      [] b.kind = "Details" -> <<"/v3/reference/tickers/", "AAPL">>
      [] b.kind = "Related" -> <<"/v1/related-companies/", "AAPL">>
      [] b.kind = "Types" -> <<"/v3/reference/tickers/types">>
      [] b.kind = "Events" -> <<"/vX/reference/tickers/", "AAPL", "/events">>
      [] b.kind = "News" -> <<"/v2/reference/news">>
      [] b.kind \in FinancialsKinds -> b.endpoint_path

\* if let Some(v) = self.field { params.push(format!("field={v}")) }, field
\* by field; a SortOrder is written format!("{v:?}").to_lowercase().
RECURSIVE FieldPairs(_, _, _)
FieldPairs(kind, names, fields) ==
    LET Written(f, v) ==
            IF FieldType(kind, f) = "SortOrder"
            THEN ToLowercase(SortOrderDebug(v))
            ELSE v
    IN IF names = <<>> THEN <<>>
       ELSE (IF IsSome(Field(fields, Head(names)))
             THEN <<<<Head(names),
                      Written(Head(names), Unwrap(Field(fields, Head(names))))>>>>
             ELSE <<>>) \o FieldPairs(kind, Tail(names), fields)

\* What an endpoint builder's get does before it awaits the transport.
EndpointPreChecks(b, key) ==
    IF ~IsSome(key)
    THEN {Outcome(FALSE, NoUrl, ErrCustom(<<"API key not set">>))}
    ELSE {Outcome(TRUE,
                  <<"https://api.polygon.io">> \o EndpointPath(b) \o <<"?">>
                  \o JoinPairs(<<<<ApiKeyName, Unwrap(key)>>>>
                               \o FieldPairs(b.kind, KindFields(b.kind), b.fields)),
                  NoResult)}

(* ------------------------------ the builder ---------------------------- *)

NoFields == {}

NoBuilder ==
    [kind |-> "None", base_url |-> <<>>, params |-> <<>>, required |-> {},
     allowed |-> {}, typed |-> FALSE, endpoint_path |-> <<>>,
     fields |-> NoFields, processor |-> "Raw"]

\* Query::new.
NewQuery(base_url) == [NoBuilder EXCEPT !.kind = "Query", !.base_url = base_url]

\* Constructors that give each Financials operation a path of its own.
NewEndpointPerKind(kind) ==
    [NoBuilder EXCEPT !.kind = kind,
                      !.endpoint_path = IF kind \in FinancialsKinds
                                        THEN <<"/vX/reference/financials/", kind>>
                                        ELSE <<>>]

\* Aggregates::new, ..., Financials::balance_sheets, ...
NewEndpoint(kind) ==
    [NoBuilder EXCEPT !.kind = kind,
                      !.endpoint_path = IF kind \in FinancialsKinds
                                        THEN <<"/vX/reference/financials">>
                                        ELSE <<>>]

\* Query::with_decoder: a Query built of the fields of self, with a decoder.
QueryWithDecoder(b) ==
    [kind |-> b.kind, base_url |-> b.base_url, params |-> b.params,
     required |-> b.required, allowed |-> b.allowed, typed |-> TRUE,
     endpoint_path |-> b.endpoint_path, fields |-> b.fields,
     processor |-> b.processor]

\* Mutant of WithProcessor: the converted builder starts from the
\* constructor's None fields.
WithProcessorFromNew(b, processor) ==
    [kind |-> b.kind, base_url |-> b.base_url, params |-> b.params,
     required |-> b.required, allowed |-> b.allowed, typed |-> b.typed,
     endpoint_path |-> b.endpoint_path, fields |-> NoFields,
     processor |-> processor]

\* as_dataframe, decoded and with_decoder of an endpoint builder: a builder
\* built of the fields of self, with the new processor.
WithProcessor(b, processor) ==
    [kind |-> b.kind, base_url |-> b.base_url, params |-> b.params,
     required |-> b.required, allowed |-> b.allowed, typed |-> b.typed,
     endpoint_path |-> b.endpoint_path, fields |-> b.fields,
     processor |-> processor]

\* What the future of get still holds of the builder once the request is
\* built: the decoder or the processor.
Consumed(b) ==
    [NoBuilder EXCEPT !.kind = b.kind, !.typed = b.typed,
                      !.processor = b.processor]

PreChecks(b, key) ==
    IF b.kind = "Query" THEN QueryPreChecks(b, key) ELSE EndpointPreChecks(b, key)

Finish(b, response) ==
    IF b.kind = "Query" THEN QueryFinish(b, response)
    ELSE Process(b.processor, DecoderFn(b.kind), response)

(* ------------------------------- tool use ------------------------------ *)

\* json!({k1: v1, ...}): an object of the members as they are written.
Json(pairs) ==
    IF pairs = <<>> THEN JObj(<<>>, <<>>)
    ELSE JObj([n \in 1..Len(pairs) |-> <<pairs[n][1]>>],
              [n \in 1..Len(pairs) |-> pairs[n][2]])

\* Value::to_string and serde_json::to_string: the compact text of a value.
RECURSIVE JsonToString(_)
RECURSIVE JoinTexts(_)
JoinTexts(texts) ==
    IF texts = <<>> THEN <<>>
    ELSE IF Len(texts) = 1 THEN texts[1]
    ELSE texts[1] \o <<COMMA>> \o JoinTexts(Tail(texts))
JsonToString(v) ==
    CASE v.t = "null" -> <<"null">>
      [] v.t \in {"num", "bool"} -> v.s
      [] v.t = "str" -> <<QT>> \o v.s \o <<QT>>
      [] v.t = "arr" ->
            <<LK>> \o JoinTexts([n \in 1..Len(v.items) |-> JsonToString(v.items[n])])
            \o <<RK>>
      [] v.t = "obj" ->
            <<LB>>
            \o JoinTexts([n \in 1..Len(v.keys) |->
                       <<QT>> \o v.keys[n] \o <<QT, COLON>>
                       \o JsonToString(v.items[n])])
            \o <<RB>>

\* list_tools: the ids of the ToolInfo it returns, in their order.
ListTools ==
    <<"list_modules", "list_endpoints", "get_endpoint_schema", "call_endpoint">>

\* list_modules: the names of the modules it returns, in their order.
ListModules == <<"Tickers", "Aggs", "Financials">>

\* The endpoints list_endpoints names for a module, in their order.
ModuleEndpoints(module) ==
    CASE module = "Tickers" ->
            <<"all", "details", "related", "types", "events", "news">>
      [] module = "Aggs" ->
            <<"aggregates", "previous_close", "grouped_daily", "daily_open_close">>
      [] module = "Financials" ->
            <<"balance_sheets", "cash_flow_statements", "income_statements",
              "ratios">>

\* params.get(name).and_then(|v| v.as_str()).
StrParam(params, name) == AsStr(JGet(params, <<name>>))

\* list_endpoints and the Text call_tool makes of it, each endpoint by its
\* name.
ListEndpoints(params) ==
    LET module == StrParam(params, "module")
    IN IF ~IsSome(module) THEN ErrCustom(<<"Missing '", "module", "' parameter">>)
       ELSE IF \E m \in {"Tickers", "Aggs", "Financials"} : Unwrap(module) = <<m>>
       THEN LET names == ModuleEndpoints(Unwrap(module)[1])
            IN OkText(JsonToString(Json(<<
                 <<"endpoints",
                   JArr([n \in 1..Len(names) |->
                           Json(<< <<"name", JStr(<<names[n]>>)>> >>)])>> >>)))
       ELSE ErrCustom(<<"Unknown module: ">> \o Unwrap(module))

\* The builder kind the enum variant of an endpoint name is called with.
EndpointKind(endpoint) ==
    CASE endpoint = "all" -> "All"
      [] endpoint = "details" -> "Details"
      [] endpoint = "related" -> "Related"
      [] endpoint = "types" -> "Types"
      [] endpoint = "events" -> "Events"
      [] endpoint = "news" -> "News"
      [] endpoint = "aggregates" -> "Aggregates"
      [] endpoint = "previous_close" -> "PreviousClose"
      [] endpoint = "grouped_daily" -> "GroupedDaily"
      [] endpoint = "daily_open_close" -> "DailyOpenClose"
      [] endpoint \in FinancialsKinds -> endpoint

\* The fields of each Params struct that are not Option, with their types.
RequiredParams(kind) ==
    CASE kind = "Aggregates" ->
            << <<"ticker", "String">>, <<"multiplier", "u32">>,
               <<"timespan", "Timespan">>, <<"from", "String">>,
               <<"to", "String">> >>
      [] kind \in {"PreviousClose", "Details", "Related", "Events"} ->
            << <<"ticker", "String">> >>
      [] kind = "GroupedDaily" -> << <<"date", "String">> >>
      [] kind = "DailyOpenClose" ->
            << <<"ticker", "String">>, <<"date", "String">> >>
      [] OTHER -> <<>>

\* The Option fields of each Params struct, by their serde names and with
\* their types; Types has no Params.
OptionalParams(kind) ==
    IF kind = "Types" THEN <<>>
    ELSE [n \in 1..Len(KindFields(kind)) |->
            <<KindFields(kind)[n], FieldType(kind, KindFields(kind)[n])>>]

\* Whether a value deserializes into a field of the type: of the number
\* tokens 1, 2 and 1000 fit a u32.  A SortOrder is the string of a unit
\* variant or the object {"custom": "<text>"}.
HasType(v, type) ==
    CASE type = "String" -> v.t = "str"
      [] type = "u32" -> v.t = "num" /\ v.s[1] \in {"1", "2", "1000"}
      [] type = "bool" -> v.t = "bool"
      [] type = "Timespan" ->
            /\ v.t = "str"
            /\ \E name \in {"minute", "hour", "day", "week", "month", "quarter",
                            "year"} : v.s = <<name>>
      [] type = "SortOrder" ->
            \/ v.t = "str" /\ v.s \in {<<"asc">>, <<"desc">>}
            \/ /\ v.t = "obj" /\ v.keys = << <<"custom">> >>
               /\ v.items[1].t = "str"

\* Mutant of Deserialize: a required field that is missing or of the wrong
\* type takes a default.
DeserializeDefaults(kind, arguments) ==
    LET optional == OptionalParams(kind)
        Held(type, v) ==
            IF type # "SortOrder" THEN v.s
            ELSE IF v.t = "obj" THEN <<"Custom">> \o v.items[1].s
            ELSE IF v.s = <<"asc">> THEN <<"Asc">> ELSE <<"Desc">>
        present == {n \in 1..Len(optional) :
                      /\ IsSome(JGet(arguments, <<optional[n][1]>>))
                      /\ Unwrap(JGet(arguments, <<optional[n][1]>>)).t # "null"}
        wrong == {optional[n][1] : n \in
                    {n \in present :
                       ~HasType(Unwrap(JGet(arguments, <<optional[n][1]>>)),
                                optional[n][2])}}
    IN IF arguments.t # "obj"
       THEN [ok |-> FALSE, fields |-> NoFields, msg |-> <<"invalid type">>]
       ELSE IF wrong # {}
       THEN [ok |-> FALSE, fields |-> NoFields,
             msg |-> <<"invalid type: ", CHOOSE f \in wrong : TRUE>>]
       ELSE [ok |-> TRUE, msg |-> <<>>,
             fields |-> {<<optional[n][1],
                           Held(optional[n][2],
                                Unwrap(JGet(arguments, <<optional[n][1]>>)))>> :
                         n \in present}]

\* serde_json::from_value::<Params>(arguments) of an object, a string, a
\* number, a bool or null: unknown members are skipped, an Option field that
\* is absent or null is None, a member of the wrong type and a missing
\* required field are errors.  The Ok carries the Option fields that are Some:
\* a SortOrder, and a bool, a u32 or a String as its text.
Deserialize(kind, arguments) ==
    LET required == RequiredParams(kind)
        optional == OptionalParams(kind)
        Held(type, v) ==
            IF type # "SortOrder" THEN v.s
            ELSE IF v.t = "obj" THEN <<"Custom">> \o v.items[1].s
            ELSE IF v.s = <<"asc">> THEN <<"Asc">> ELSE <<"Desc">>
        present == {n \in 1..Len(optional) :
                      /\ IsSome(JGet(arguments, <<optional[n][1]>>))
                      /\ Unwrap(JGet(arguments, <<optional[n][1]>>)).t # "null"}
        wrong == {required[n][1] : n \in
                    {n \in 1..Len(required) :
                       /\ IsSome(JGet(arguments, <<required[n][1]>>))
                       /\ ~HasType(Unwrap(JGet(arguments, <<required[n][1]>>)),
                                   required[n][2])}}
                 \cup
                 {optional[n][1] : n \in
                    {n \in present :
                       ~HasType(Unwrap(JGet(arguments, <<optional[n][1]>>)),
                                optional[n][2])}}
        missing == {n \in 1..Len(required) :
                      ~IsSome(JGet(arguments, <<required[n][1]>>))}
    IN IF arguments.t # "obj"
       THEN [ok |-> FALSE, fields |-> NoFields, msg |-> <<"invalid type">>]
       ELSE IF wrong # {}
       THEN [ok |-> FALSE, fields |-> NoFields,
             msg |-> <<"invalid type: ", CHOOSE f \in wrong : TRUE>>]
       ELSE IF missing # {}
       THEN [ok |-> FALSE, fields |-> NoFields,
             msg |-> <<"missing field ",
                       required[CHOOSE n \in missing :
                                  \A m \in missing : n <= m][1]>>]
       ELSE [ok |-> TRUE, msg |-> <<>>,
             fields |-> {<<optional[n][1],
                           Held(optional[n][2],
                                Unwrap(JGet(arguments, <<optional[n][1]>>)))>> :
                         n \in present}]

\* build_endpoint: Ok with the variant's kind and the Some fields of its
\* Params, or Err.  Tickers::Types takes no arguments.
BuildEndpoint(module, endpoint, arguments) ==
    LET Matched(m) ==
            CASE m = "Tickers" ->
                    {"all", "details", "related", "types", "events", "news"}
              [] m = "Aggs" ->
                    {"aggregates", "previous_close", "grouped_daily",
                     "daily_open_close"}
              [] m = "Financials" ->
                    {"balance_sheets", "cash_flow_statements",
                     "income_statements", "ratios"}
        BuiltErr(e) ==
            [ok |-> FALSE, kind |-> "None", fields |-> NoFields, err |-> e]
        Built(kind, p) ==
            IF p.ok
            THEN [ok |-> TRUE, kind |-> kind, fields |-> p.fields,
                  err |-> NoResult]
            ELSE BuiltErr(ErrCustom(p.msg))
    IN IF module \notin {<<"Tickers">>, <<"Aggs">>, <<"Financials">>}
       THEN BuiltErr(ErrCustom(<<"Unknown module: ">> \o module))
       ELSE IF ~\E e \in Matched(module[1]) : endpoint = <<e>>
       THEN BuiltErr(ErrCustom(<<"Unknown ", module[1], " endpoint: ">>
                               \o endpoint))
       ELSE IF endpoint = <<"types">>
       THEN [ok |-> TRUE, kind |-> "Types", fields |-> NoFields,
             err |-> NoResult]
       ELSE Built(EndpointKind(endpoint[1]),
                  Deserialize(EndpointKind(endpoint[1]), arguments))

\* get_endpoint_schema and the Text call_tool makes of it: of the schema, the
\* names of the required properties and of all properties.
GetEndpointSchema(params) ==
    LET module == StrParam(params, "module")
        endpoint == StrParam(params, "endpoint")
        Matched ==
            {<<"Aggs", e>> : e \in {"aggregates", "previous_close",
                                    "grouped_daily", "daily_open_close"}}
            \cup {<<"Tickers", e>> : e \in {"all", "details", "related",
                                            "events", "news", "types"}}
            \cup {<<"Financials", e>> : e \in
                     {"balance_sheets", "cash_flow_statements",
                      "income_statements", "ratios"}}
    IN IF ~IsSome(module) THEN ErrCustom(<<"Missing '", "module", "' parameter">>)
       ELSE IF ~IsSome(endpoint)
       THEN ErrCustom(<<"Missing '", "endpoint", "' parameter">>)
       ELSE IF \E p \in Matched :
                 Unwrap(module) = <<p[1]>> /\ Unwrap(endpoint) = <<p[2]>>
       THEN IF Unwrap(endpoint) = <<"types">>
            THEN OkText(JsonToString(Json(<<
                   <<"type", JStr(<<"object">>)>>,
                   <<"properties", Json(<<>>)>>,
                   <<"description", JStr(<<"No parameters required">>)>> >>)))
            ELSE LET kind == EndpointKind(Unwrap(endpoint)[1])
                     required == RequiredParams(kind)
                     all == required \o OptionalParams(kind)
                 IN OkText(JsonToString(Json(<<
                      <<"type", JStr(<<"object">>)>>,
                      <<"properties",
                        Json([n \in 1..Len(all) |->
                                <<all[n][1], Json(<<>>)>>])>>,
                      <<"required",
                        JArr([n \in 1..Len(required) |->
                                JStr(<<required[n][1]>>)])>> >>)))
       ELSE ErrCustom(<<"Unknown endpoint: ">> \o Unwrap(module)
                      \o <<"::">> \o Unwrap(endpoint))

\* An output schema that has columns for the Aggs operations only.
GetOutputSchemaAggs(module, endpoint) ==
    IF module = <<"Aggs">>
       /\ endpoint \in {<<"aggregates">>, <<"previous_close">>,
                        <<"grouped_daily">>, <<"daily_open_close">>}
    THEN <<"c", "h", "l", "o", "t", "v", "vw", "n">>
    ELSE <<>>

\* get_output_schema: the names of the columns.
GetOutputSchema(module, endpoint) ==
    CASE module = <<"Aggs">>
         /\ endpoint \in {<<"aggregates">>, <<"previous_close">>,
                          <<"grouped_daily">>, <<"daily_open_close">>} ->
            <<"c", "h", "l", "o", "t", "v", "vw", "n">>
      [] module = <<"Tickers">> /\ endpoint = <<"all">> ->
            <<"ticker", "name", "market", "locale", "primary_exchange", "type",
              "active", "currency_name", "cik">>
      [] module = <<"Tickers">> /\ endpoint = <<"details">> ->
            <<"ticker", "name", "market", "locale", "primary_exchange", "type",
              "active", "description", "market_cap", "phone_number", "address">>
      [] module = <<"Tickers">> /\ endpoint = <<"news">> ->
            <<"id", "publisher", "title", "author", "published_utc",
              "article_url", "tickers", "amp_url", "image_url", "description",
              "keywords">>
      [] module = <<"Tickers">> /\ endpoint = <<"events">> ->
            <<"name", "composite_figi", "cik", "events">>
      [] module = <<"Tickers">> /\ endpoint = <<"related">> -> <<"ticker">>
      [] module = <<"Tickers">> /\ endpoint = <<"types">> ->
            <<"asset_class", "code", "description", "locale">>
      [] module = <<"Financials">>
         /\ endpoint \in {<<"income_statements">>, <<"balance_sheets">>,
                          <<"cash_flow_statements">>, <<"ratios">>} ->
            <<"cik", "company_name", "start_date", "end_date", "fiscal_period",
              "fiscal_year", "timeframe", "financials">>
      [] OTHER -> <<>>

\* call_endpoint, up to the await of the builder's get: the builder whose
\* get it awaits, and the outcome of that get or of an earlier return.  The
\* builder is the constructor of rest with one setter called for each field
\* of the Params that is Some (call_tickers, call_aggs, call_financials):
\* call_aggs passes sort as format!("{s:?}").to_lowercase(), every other
\* field as it is.  The path fields of the arguments are those EndpointPath
\* writes.
CallEndpoint(params, key) ==
    LET module == StrParam(params, "module")
        endpoint == StrParam(params, "endpoint")
        arguments == JGet(params, <<"arguments">>)
        Return(r) == {[builder |-> NoBuilder, out |-> Outcome(FALSE, NoUrl, r)]}
        Await(b) == {[builder |-> Consumed(b), out |-> o] : o \in PreChecks(b, key)}
        Passed(kind, p) ==
            IF kind = "Aggregates" /\ p[1] = "sort"
            THEN <<p[1], SortOrderFrom(ToLowercase(SortOrderDebug(p[2])))>>
            ELSE p
        Built(e) ==
            IF ~e.ok THEN Return(e.err)
            ELSE Await([NewEndpoint(e.kind) EXCEPT
                          !.fields = {Passed(e.kind, p) : p \in e.fields}])
    IN IF ~IsSome(module)
       THEN Return(ErrCustom(<<"Missing '", "module", "' parameter">>))
       ELSE IF ~IsSome(endpoint)
       THEN Return(ErrCustom(<<"Missing '", "endpoint", "' parameter">>))
       ELSE IF ~IsSome(arguments)
       THEN Return(ErrCustom(<<"Missing '", "arguments", "' parameter">>))
       ELSE Built(BuildEndpoint(Unwrap(module), Unwrap(endpoint),
                                Unwrap(arguments)))

\* Map::remove(key) on an object; any other value is left as it is.
JRemove(v, key) ==
    IF v.t # "obj" THEN v
    ELSE LET Kept(n) == v.keys[n] # key
             idx == SelectSeq([n \in 1..Len(v.keys) |-> n], Kept)
         IN JObj([n \in 1..Len(idx) |-> v.keys[idx[n]]],
                 [n \in 1..Len(idx) |-> v.items[idx[n]]])

\* call_endpoint, from the return of the builder's get: got is what get
\* returned.
CallEndpointFinish(params, got) ==
    LET schema == GetOutputSchema(Unwrap(StrParam(params, "module")),
                                  Unwrap(StrParam(params, "endpoint")))
        Split(response, results) ==
            IF IsSome(results)
            THEN OkToolDataFrame(Unwrap(results), schema,
                                 Some(JRemove(response, <<"results">>)))
            ELSE OkToolDataFrame(response, schema, None)
        Parsed(response) ==
            IF ~IsSome(response)
            THEN ErrCustom(<<"Failed to parse JSON: ", "invalid JSON">>)
            ELSE Split(Unwrap(response), JGet(Unwrap(response), <<"results">>))
    IN IF got.tag = "Err" THEN got ELSE Parsed(FromStr(got.text))

\* call_tool, up to its return or to the await of call_endpoint.
CallToolStart(request, key) ==
    LET tool == AsStr(JGet(request, <<"tool">>))
        params == JGet(request, <<"params">>)
        Return(r) == {[builder |-> NoBuilder, out |-> Outcome(FALSE, NoUrl, r)]}
        NoParams == Return(ErrCustom(<<"Missing 'params' field">>))
        Names(key_, names) ==
            JArr([n \in 1..Len(names) |->
                    Json(<< <<key_, JStr(<<names[n]>>)>> >>)])
    IN IF ~IsSome(tool) THEN Return(ErrCustom(<<"Missing 'tool' field">>))
       ELSE CASE Unwrap(tool) = <<"list_tools">> ->
                    Return(OkText(JsonToString(Names("id", ListTools))))
              [] Unwrap(tool) = <<"list_modules">> ->
                    Return(OkText(JsonToString(Json(<<
                        <<"modules", Names("name", ListModules)>> >>))))
              [] Unwrap(tool) = <<"list_endpoints">> ->
                    IF ~IsSome(params) THEN NoParams
                    ELSE Return(ListEndpoints(Unwrap(params)))
              [] Unwrap(tool) = <<"get_endpoint_schema">> ->
                    IF ~IsSome(params) THEN NoParams
                    ELSE Return(GetEndpointSchema(Unwrap(params)))
              [] Unwrap(tool) = <<"call_endpoint">> ->
                    IF ~IsSome(params) THEN NoParams
                    ELSE CallEndpoint(Unwrap(params), key)
              [] OTHER -> Return(ErrCustom(<<"Unknown tool: ">> \o Unwrap(tool)))

(* ------------------------------ the state ------------------------------ *)

ParamNames == {"cik", "limit", ApiKeyName}
ParamValues == {VString(<<"x">>), VString(<<"a", "&", "b", "=", " ", "?", "#">>), VBool(TRUE), VNull}
ParamPairs == {<<k, v>> : k \in ParamNames, v \in ParamValues}
BaseUrls == {<<"https://api.polygon.io/stocks/financials/v1/balance-sheets">>}
Keys == {<<"KEY">>, <<"K", "&", "Y">>}

\* The requests handed to call_tool.  A member of an object is there with
\* one of its values, or left out.  The names are those of the tools, the
\* modules and the endpoints, one more of each, and a number for a string;
\* the arguments are objects that fit one or another Params, objects with a
\* field missing, null, of the wrong type or out of range, null and a string.
ToolRequests ==
    LET Members(name, values) == {<<>>} \cup {<< <<name, v>> >> : v \in values}
        ToolValues ==
            {JStr(<<t>>) : t \in SeqToSet(ListTools)
                                \cup {"list_tools", "get_tool_details"}}
            \cup {JNum("1")}
        ModuleValues ==
            {JStr(<<m>>) : m \in SeqToSet(ListModules) \cup {"Options"}}
            \cup {JNum("1")}
        EndpointValues ==
            {JStr(<<e>>) : e \in UNION {SeqToSet(ModuleEndpoints(m)) :
                                          m \in SeqToSet(ListModules)}
                                \cup {"trades"}}
            \cup {JNum("1")}
        Ticker == <<"ticker", JStr(<<"AAPL">>)>>
        Date == <<"date", JStr(<<"2024-01-01">>)>>
        Range ==
            << <<"multiplier", JNum("1")>>, <<"timespan", JStr(<<"day">>)>>,
               <<"from", JStr(<<"2024-01-01">>)>> >>
        To == <<"to", JStr(<<"2024-01-05">>)>>
        ArgumentValues ==
            {Json(<<>>), Json(<<Ticker>>), Json(<<Date>>), Json(<<Ticker, Date>>),
             Json(<< <<"ticker", JNum("1")>> >>), Json(<< <<"ticker", JNull>> >>),
             Json(<<Ticker, <<"limit", JNum("1000")>> >>),
             Json(<<Ticker, <<"limit", JStr(<<"1000">>)>> >>),
             Json(<<Ticker, <<"limit", JNum("1700000000000")>> >>),
             Json(<<Ticker>> \o Range \o <<To>>),
             Json(<<Ticker>> \o Range),
             Json(<<Ticker>> \o Range
                  \o <<To, <<"sort", JStr(<<"desc">>)>> >>),
             Json(<<Ticker>> \o Range
                  \o <<To, <<"sort", Json(<< <<"custom", JStr(<<"Timestamp">>)>> >>)>> >>),
             Json(<<Ticker, <<"order", Json(<< <<"custom", JStr(<<"Timestamp">>)>> >>)>> >>),
             Json(<<Ticker, <<"multiplier", JNum("1")>>,
                    <<"timespan", JStr(<<"fortnight">>)>>,
                    <<"from", JStr(<<"2024-01-01">>)>>, To>>),
             JNull, JStr(<<"AAPL">>)}
    IN {Json(t) : t \in Members("tool", ToolValues)}
       \cup {Json(<< <<"tool", JStr(<<t>>)>>, <<"params", Json(m \o e)>> >>) :
               t \in {"list_endpoints", "get_endpoint_schema"},
               m \in Members("module", ModuleValues),
               e \in Members("endpoint", EndpointValues)}
       \cup {Json(<< <<"tool", JStr(<<"call_endpoint">>)>>,
                     <<"params", Json(m \o e \o a)>> >>) :
               m \in Members("module", ModuleValues),
               e \in Members("endpoint", EndpointValues),
               a \in Members("arguments", ArgumentValues)}

(* --------------------------- the static instance ----------------------- *)

\* A Polygon is its key and its transport handle.  Polygon::default() has
\* no key and a reqwest::Client of its own.
PolygonDefault == [api_key |-> None, client |-> "client0"]

\* The clients given to initialize: Polygon::default().with_key(k), each
\* with the transport of its own default().
Polygons ==
    {[api_key |-> Some(<<"KEY">>), client |-> "client1"],
     [api_key |-> Some(<<"K", "&", "Y">>), client |-> "client2"]}

Threads == 1..MaxThreads

\* A thread that has called nothing: it holds no Arc (address 0) and no
\* request.  guard is the Arc initialize made or the Guard load returned,
\* handle the Arc instance returned, previous the Arc initialize returned.
NoThread ==
    [pc |-> "idle", guard |-> 0, handle |-> 0, previous |-> 0,
     builder |-> NoBuilder, sent |-> <<>>, response |-> None,
     result |-> NoResult]

\* A swap that returns the Arc it was given.
SwapReturnsNew(current, new) == [current |-> new, previous |-> new]

\* ArcSwap::swap: stores the new Arc and returns the one held before, in one
\* atomic step.
Swap(current, new) == [current |-> new, previous |-> current]

\* The builders the threads call get on, and what the transport answers
\* them.
SharedBuilders ==
    {NewQuery(u) : u \in BaseUrls}
    \cup {NewEndpoint("Related"), WithProcessor(NewEndpoint("Related"), "Decoder")}
SharedResults ==
    {HttpResponse(200, BodyRelated, None),
     HttpResponse(403, BodyUnauthorized, Some(<<"hdr-1">>)),
     TransportFailure("timeout")}

\* An await that resumes a future with the response run through the builder
\* of the first thread that has a request in flight.
AwaitedFirst(ths, t, r) ==
    LET first == CHOOSE u \in DOMAIN ths :
                    /\ ths[u].pc = "awaiting"
                    /\ \A w \in DOMAIN ths : ths[w].pc = "awaiting" => u <= w
    IN [ths EXCEPT ![t].pc = "done", ![t].response = Some(r),
                   ![t].result = Finish(Consumed(ths[first].builder), r)]

\* The future of thread t is resumed with the response to its own request
\* and runs to its end.
Awaited(ths, t, r) ==
    [ths EXCEPT ![t].pc = "done", ![t].response = Some(r),
                ![t].result = Finish(Consumed(ths[t].builder), r)]

VARIABLES
    api_key,    \* Polygon::api_key
    pc,         \* where the one request is: idle, accumulating, awaiting, done
    builder,    \* the request builder
    sent,       \* the URLs handed to Request::get since the builder was made
    response,   \* what the transport returned
    result,     \* what get, or call_tool, returned
    call,       \* the request of the call_tool under way, None outside one
    conv,       \* the last conversion of a common type: what was called,
                \* with what, and what it returned
    limits,     \* the arguments limit was called with on the builder, in
                \* order (a history: nothing reads it)
    arcs,       \* every Arc<Polygon> made so far, by its address: the
                \* Polygon it points to
    STATIC_INSTANCE,    \* the address the ArcSwap holds
    threads     \* each thread: where it is in initialize, instance or get,
                \* and what it holds

shared == <<arcs, STATIC_INSTANCE, threads>>
vars == <<api_key, pc, builder, sent, response, result, call, conv, limits,
          arcs, STATIC_INSTANCE, threads>>

Init ==
    /\ api_key = None
    /\ pc = "idle"
    /\ builder = NoBuilder
    /\ sent = <<>>
    /\ response = None
    /\ result = NoResult
    /\ call = None
    /\ conv = [op |-> "none", input |-> <<>>, output |-> <<>>]
    /\ limits = <<>>
    /\ arcs = <<PolygonDefault>>
    /\ STATIC_INSTANCE = 1
    /\ threads = [t \in Threads |-> NoThread]

\* Polygon::with_key.
WithKey ==
    /\ pc = "idle"
    /\ \E k \in Keys : api_key' = Some(k)
    /\ UNCHANGED <<shared, conv, limits, call, pc, builder, sent, response, result>>

QueryNew ==
    /\ pc = "idle"
    /\ \E u \in BaseUrls : builder' = NewQuery(u)
    /\ pc' = "accumulating"
    /\ UNCHANGED <<shared, conv, limits, call, api_key, sent, response, result>>

IsQuery == pc = "accumulating" /\ builder.kind = "Query"
IsEndpoint == pc = "accumulating" /\ builder.kind \in EndpointKinds

\* Query::param.
Param ==
    /\ IsQuery
    /\ Len(builder.params) < MaxParams
    /\ \E p \in ParamPairs : builder' = [builder EXCEPT !.params = Append(@, p)]
    /\ UNCHANGED <<shared, conv, limits, call, api_key, pc, sent, response, result>>

\* Query::params.
Params ==
    /\ IsQuery
    /\ \E n \in 0..(MaxParams - Len(builder.params)) :
         \E ps \in [1..n -> ParamPairs] :
            builder' = [builder EXCEPT !.params = @ \o ps]
    /\ UNCHANGED <<shared, conv, limits, call, api_key, pc, sent, response, result>>

\* Query::require.
Require ==
    /\ IsQuery /\ ~builder.typed
    /\ \E k \in ParamNames :
         builder' = [builder EXCEPT !.required = @ \cup {k},
                                    !.allowed = @ \cup {k}]
    /\ UNCHANGED <<shared, conv, limits, call, api_key, pc, sent, response, result>>

\* Query::optional.
Optional ==
    /\ IsQuery /\ ~builder.typed
    /\ \E k \in ParamNames : builder' = [builder EXCEPT !.allowed = @ \cup {k}]
    /\ UNCHANGED <<shared, conv, limits, call, api_key, pc, sent, response, result>>

\* Query::with_decoder.
WithDecoder ==
    /\ IsQuery /\ ~builder.typed
    /\ builder' = QueryWithDecoder(builder)
    /\ UNCHANGED <<shared, conv, limits, call, api_key, pc, sent, response, result>>

EndpointNew ==
    /\ pc = "idle"
    /\ \E kind \in EndpointKinds : builder' = NewEndpoint(kind)
    /\ pc' = "accumulating"
    /\ UNCHANGED <<shared, conv, limits, call, api_key, sent, response, result>>

\* The setters of the optional fields: adjusted, sort, limit, ticker, ...
\* A setter leaves in its field Some of a bool or a String as it is given, of
\* a SortOrder the SortOrder (sort converts its argument), and limit the
\* Option<u32> of the Limit of its argument, a u32 as its decimal text.
SetField ==
    /\ IsEndpoint
    /\ \E f \in SeqToSet(KindFields(builder.kind)) :
         /\ IsSome(Field(builder.fields, f))
              \/ Cardinality(builder.fields) < MaxSetters
         /\ f = "limit" => Len(limits) < MaxLimits
         /\ \E v \in FieldValues(builder.kind, f) :
              LET Number(o) ==
                      IF IsSome(o) THEN Some(<<ToString(Unwrap(o))>>) ELSE None
                  Setter ==
                      CASE FieldType(builder.kind, f) = "u32" ->
                              Number(LimitIntoOption(LimitFrom(v)))
                        [] FieldType(builder.kind, f) = "SortOrder"
                           /\ f = "sort" -> Some(SortOrderFrom(v))
                        [] OTHER -> Some(v)
              IN /\ builder' = [builder EXCEPT
                                  !.fields = Assign(builder.fields, f, Setter)]
                 /\ limits' = IF f = "limit" THEN Append(limits, v) ELSE limits
    /\ UNCHANGED <<shared, conv, call, api_key, pc, sent, response, result>>

\* decoded.
Decoded ==
    /\ IsEndpoint /\ builder.kind # "Types"
    /\ builder' = WithProcessor(builder, "Decoder")
    /\ UNCHANGED <<shared, conv, limits, call, api_key, pc, sent, response, result>>

\* with_decoder of an endpoint builder.
EndpointWithDecoder ==
    /\ IsEndpoint /\ builder.kind # "Types"
    /\ builder' = WithProcessor(builder, "Decoder")
    /\ UNCHANGED <<shared, conv, limits, call, api_key, pc, sent, response, result>>

\* as_dataframe.
AsDataframe ==
    /\ IsEndpoint
    /\ builder' = WithProcessor(builder, "Table")
    /\ UNCHANGED <<shared, conv, limits, call, api_key, pc, sent, response, result>>

\* get, up to its await of the transport.
Get ==
    /\ pc = "accumulating"
    /\ \E o \in PreChecks(builder, api_key) :
         /\ pc' = IF o.send THEN "awaiting" ELSE "done"
         /\ sent' = IF o.send THEN Append(sent, o.url) ELSE sent
         /\ result' = o.err
    /\ builder' = Consumed(builder)
    /\ limits' = <<>>
    /\ UNCHANGED <<shared, conv, call, api_key, response>>

\* call_tool, up to its return or to its await of the transport.
CallTool ==
    /\ pc = "idle"
    /\ \E request \in ToolRequests :
         /\ call' = Some(request)
         /\ \E o \in CallToolStart(request, api_key) :
              /\ pc' = IF o.out.send THEN "awaiting" ELSE "done"
              /\ sent' = IF o.out.send THEN Append(sent, o.out.url) ELSE sent
              /\ result' = o.out.err
              /\ builder' = o.builder
    /\ UNCHANGED <<shared, conv, limits, api_key, response>>

\* The transport answers and get runs to its end, and with it the call_tool
\* that awaits it.
Respond ==
    /\ pc = "awaiting"
    /\ \E r \in TransportResults :
         /\ response' = Some(r)
         /\ LET Returned(got) ==
                    IF IsSome(call)
                    THEN CallEndpointFinish(
                           Unwrap(JGet(Unwrap(call), <<"params">>)), got)
                    ELSE got
            IN result' = Returned(Finish(builder, r))
    /\ pc' = "done"
    /\ UNCHANGED <<shared, conv, limits, call, api_key, builder, sent>>

\* The caller is done with the result.
Drop ==
    /\ pc = "done"
    /\ pc' = "idle"
    /\ builder' = NoBuilder
    /\ sent' = <<>>
    /\ response' = None
    /\ result' = NoResult
    /\ call' = None
    /\ UNCHANGED <<shared, conv, limits, api_key>>

Next ==
    \/ WithKey
    \/ QueryNew
    \/ Param
    \/ Params
    \/ Require
    \/ Optional
    \/ WithDecoder
    \/ EndpointNew
    \/ SetField
    \/ Decoded
    \/ EndpointWithDecoder
    \/ AsDataframe
    \/ Get
    \/ CallTool
    \/ Respond
    \/ Drop

Spec == Init /\ [][Next]_vars

(* ------------------- the conversions of the common types --------------- *)

\* One conversion is called, with any of its inputs; the pipeline stands
\* still.

\* The strings a timespan is given as: each name Timespan::from_str matches,
\* in lower case, in upper case and capitalised, and strings it does not
\* match.
TimespanStrings ==
    LET Matched ==
            {"minute", "min", "hour", "hr", "h", "day", "d", "dy", "week", "w",
             "wk", "month", "mo", "mth", "quarter", "q", "qrtr", "qtr", "year",
             "y", "yr"}
        Upper ==
            {"MINUTE", "MIN", "HOUR", "HR", "H", "DAY", "D", "DY", "WEEK", "W",
             "WK", "MONTH", "MO", "MTH", "QUARTER", "Q", "QRTR", "QTR", "YEAR",
             "Y", "YR"}
        Capitalised ==
            {"Minute", "Min", "Hour", "Hr", "Day", "Dy", "Week", "Wk", "Month",
             "Mo", "Mth", "Quarter", "Qrtr", "Qtr", "Year", "Yr"}
        Others ==
            {"fortnight", "Fortnight", "FORTNIGHT", "weeks", "days", "m", "",
             " day", "1"}
    IN {<<s>> : s \in Matched \cup Upper \cup Capitalised \cup Others}

\* "wk".parse::<Timespan>().
CallTimespanFromStr ==
    /\ conv.op = "none"
    /\ \E s \in TimespanStrings :
         conv' = [op |-> "Timespan::from_str", input |-> s,
                  output |-> TimespanFromStr(s)]
    /\ UNCHANGED <<shared, api_key, pc, builder, sent, response, result, call, limits>>

\* rest::table::aggs::aggregates(&client, "AAPL", 1, "wk", ..): the timespan
\* of the Aggregates builder it returns.
CallTableAggregates ==
    /\ conv.op = "none"
    /\ \E s \in TimespanStrings :
         conv' = [op |-> "table::aggs::aggregates", input |-> s,
                  output |-> TableAggregates(s)]
    /\ UNCHANGED <<shared, api_key, pc, builder, sent, response, result, call, limits>>

\* Limit::from and the conversion of its result into Option<u32>: with the
\* strings of up to two characters over a few digits, a sign, a letter and a
\* space, with some longer ones, and with every value of each integer type.
CallLimitFrom ==
    LET Chars == {"0", "1", "5", "6", "+", "-", "a", " "}
        Strings ==
            UNION {[1..n -> Chars] : n \in 0..2}
            \cup {<<"a", "b", "c">>, <<"0", "1", "5">>, <<"+", "1", "0">>,
                  <<"1", "0", "0">>, <<"1", "0", "0", "0">>, <<"1", ".", "5">>}
        Unsigned(bits) == 0..(2 ^ bits - 1)
        Signed(bits) == (-(2 ^ (bits - 1)))..(2 ^ (bits - 1) - 1)
        Integers(type) ==
            CASE type = "u32" -> Unsigned(U32Bits)
              [] type = "i32" -> Signed(U32Bits)
              [] type \in {"u64", "usize"} -> Unsigned(2 * U32Bits)
              [] type \in {"i64", "isize"} -> Signed(2 * U32Bits)
        Values ==
            {[type |-> "str", s |-> s, n |-> 0] : s \in Strings}
            \cup UNION {{[type |-> type, s |-> <<>>, n |-> n] : n \in Integers(type)} :
                          type \in {"u32", "i32", "u64", "i64", "usize", "isize"}}
        Called(value, limit) ==
            [op |-> "Limit::from", input |-> value,
             output |-> [limit |-> limit, option |-> LimitIntoOption(limit)]]
    IN /\ conv.op = "none"
       /\ \E value \in Values : conv' = Called(value, LimitFrom(value))
       /\ UNCHANGED <<shared, api_key, pc, builder, sent, response, result, call, limits>>

NextCommon ==
    \/ CallTimespanFromStr
    \/ CallTableAggregates
    \/ CallLimitFrom

SpecCommon == Init /\ [][NextCommon]_vars

(* ------------- initialize, instance and get on several threads --------- *)

unshared == <<api_key, pc, builder, sent, response, result, call, conv, limits>>

\* initialize, its argument: Arc::from(polygon) makes a new Arc.
InitializeArc ==
    /\ Len(arcs) < MaxArcs
    /\ \E t \in Threads : \E polygon \in Polygons :
         /\ threads[t].pc = "idle"
         /\ arcs' = Append(arcs, polygon)
         /\ threads' = [threads EXCEPT ![t].pc = "initialize",
                                       ![t].guard = Len(arcs) + 1]
    /\ UNCHANGED <<unshared, STATIC_INSTANCE>>

\* initialize, its swap and return.
InitializeSwap ==
    /\ \E t \in Threads :
         /\ threads[t].pc = "initialize"
         /\ STATIC_INSTANCE' = Swap(STATIC_INSTANCE, threads[t].guard).current
         /\ threads' = [threads EXCEPT
                          ![t].pc = "idle", ![t].guard = 0,
                          ![t].previous =
                              Swap(STATIC_INSTANCE, threads[t].guard).previous]
    /\ UNCHANGED <<unshared, arcs>>

\* instance, its load: a Guard of the Arc held now.
InstanceLoad ==
    /\ \E t \in Threads :
         /\ threads[t].pc = "idle"
         /\ threads' = [threads EXCEPT ![t].pc = "instance",
                                       ![t].guard = STATIC_INSTANCE]
    /\ UNCHANGED <<unshared, arcs, STATIC_INSTANCE>>

\* instance, its clone of the Guard and return.
InstanceClone ==
    /\ \E t \in Threads :
         /\ threads[t].pc = "instance"
         /\ threads' = [threads EXCEPT ![t].pc = "idle", ![t].guard = 0,
                                       ![t].handle = threads[t].guard]
    /\ UNCHANGED <<unshared, arcs, STATIC_INSTANCE>>

\* get on a builder made on the client a thread holds, up to its await.
SharedGet ==
    /\ \E t \in Threads : \E b \in SharedBuilders :
         /\ threads[t].pc = "idle" /\ threads[t].handle # 0
         /\ \E o \in PreChecks(b, arcs[threads[t].handle].api_key) :
              threads' = [threads EXCEPT
                            ![t].pc = IF o.send THEN "awaiting" ELSE "done",
                            ![t].builder = b,
                            ![t].sent = IF o.send
                                        THEN <<<<arcs[threads[t].handle].client,
                                                 o.url>>>>
                                        ELSE <<>>,
                            ![t].result = o.err]
    /\ UNCHANGED <<unshared, arcs, STATIC_INSTANCE>>

\* The transport answers one of the requests in flight.
SharedRespond ==
    /\ \E t \in Threads : \E r \in SharedResults :
         /\ threads[t].pc = "awaiting"
         /\ threads' = Awaited(threads, t, r)
    /\ UNCHANGED <<unshared, arcs, STATIC_INSTANCE>>

\* The caller is done with the result.
SharedDrop ==
    /\ \E t \in Threads :
         /\ threads[t].pc = "done"
         /\ threads' = [threads EXCEPT
                          ![t] = [NoThread EXCEPT
                                    !.handle = threads[t].handle,
                                    !.previous = threads[t].previous]]
    /\ UNCHANGED <<unshared, arcs, STATIC_INSTANCE>>

NextShared ==
    \/ InitializeArc
    \/ InitializeSwap
    \/ InstanceLoad
    \/ InstanceClone
    \/ SharedGet
    \/ SharedRespond
    \/ SharedDrop

SpecShared == Init /\ [][NextShared]_vars

(* ------------------------------ the claims ----------------------------- *)

IsMissingRequired(r) ==
    /\ r.tag = "Err" /\ r.variant = "Custom"
    /\ Len(r.message) >= 1 /\ r.message[1] = "Missing required parameters: "
IsInvalidParams(r) ==
    /\ r.tag = "Err" /\ r.variant = "Custom"
    /\ Len(r.message) >= 1 /\ r.message[1] = "Invalid parameters: "

\* The step in which get runs its checks, on a Query and on an endpoint
\* builder.
QueryGets == pc = "accumulating" /\ builder.kind = "Query" /\ pc' # "accumulating"
EndpointGets ==
    pc = "accumulating" /\ builder.kind \in EndpointKinds /\ pc' # "accumulating"

\* The names supplied when the checks run: the caller's and the injected key.
Supplied == Provided(builder.params) \cup {ApiKeyName}
RequiredSupplied == builder.required \subseteq Supplied
AllSuppliedAllowed ==
    Provided(builder.params) \subseteq builder.allowed \cup {ApiKeyName}

\* C1: Query get checks the key, then the required names, then the
\* allow-list; the first check that fails decides the error, and a request
\* is handed to the transport only when all three passed.  An endpoint
\* builder without a key hands nothing to the transport either.
C1_PreChecksBeforeGet ==
    [][/\ QueryGets =>
            /\ ~IsSome(api_key) =>
                 result' = ErrMissingApiKey /\ sent' = <<>> /\ pc' = "done"
            /\ IsSome(api_key) /\ ~RequiredSupplied =>
                 IsMissingRequired(result') /\ sent' = <<>> /\ pc' = "done"
            /\ IsSome(api_key) /\ RequiredSupplied /\ builder.allowed # {}
                 /\ ~AllSuppliedAllowed =>
                 IsInvalidParams(result') /\ sent' = <<>> /\ pc' = "done"
            /\ Len(sent') = 1 =>
                 /\ IsSome(api_key) /\ RequiredSupplied
                 /\ builder.allowed = {} \/ AllSuppliedAllowed
                 /\ pc' = "awaiting" /\ result' = NoResult
       /\ EndpointGets /\ ~IsSome(api_key) =>
            result'.tag = "Err" /\ sent' = <<>> /\ pc' = "done"]_vars

\* A call that failed on a required name, with nothing sent.
C1_Witness ==
    /\ pc = "done" /\ builder.kind = "Query"
    /\ IsMissingRequired(result) /\ sent = <<>> /\ response = None

\* C2: with a key, a Query's get fails with the missing-required error
\* exactly when some required name is not supplied, and the error lists
\* exactly the required names that are not supplied.
C2_MissingRequired ==
    [][QueryGets /\ IsSome(api_key) =>
         /\ IsMissingRequired(result') <=> ~RequiredSupplied
         /\ IsMissingRequired(result') =>
              /\ SeqToSet(Tail(result'.message)) = builder.required \ Supplied
              /\ Len(Tail(result'.message))
                   = Cardinality(builder.required \ Supplied)]_vars

\* The error names two missing names.
C2_Witness ==
    /\ pc = "done" /\ builder.kind = "Query" /\ IsMissingRequired(result)
    /\ SeqToSet(Tail(result.message)) = {"cik", "limit"}

\* C3: with a key and every required name supplied, a Query with a
\* non-empty allow-list fails with the invalid-parameter error exactly when a
\* supplied name is outside the allow-list and is not apiKey; with an empty
\* allow-list it never does.
C3_AllowList ==
    [][QueryGets /\ IsSome(api_key) /\ RequiredSupplied =>
         /\ builder.allowed # {} =>
              (IsInvalidParams(result') <=> ~AllSuppliedAllowed)
         /\ builder.allowed = {} =>
              ~IsInvalidParams(result') /\ pc' = "awaiting"]_vars

\* The invalid-parameter error was returned.
C3_Witness ==
    /\ pc = "done" /\ builder.kind = "Query" /\ IsInvalidParams(result)
    /\ sent = <<>>

\* A call that got an HTTP response, on a Query and on an endpoint builder.
Answered ==
    pc = "done" /\ call = None /\ IsSome(response) /\ Unwrap(response).ok
QueryAnswered == Answered /\ builder.kind = "Query"
EndpointAnswered == Answered /\ builder.kind \in EndpointKinds
Status == Unwrap(response).status
Body == Unwrap(response).body

\* C4: a processor takes the success path (no ApiError, the body goes on to
\* the output conversion) exactly for a status from 200 to 299.
C4_SuccessIs2xx ==
    EndpointAnswered =>
        ((200 <= Status /\ Status <= 299) <=> result.variant # "ApiError")

\* C5: a Query returns the body, or what the decoder makes of it, for a
\* status from 200 to 399, and an error for a status of 400 or more.
C5_QueryStatus ==
    QueryAnswered =>
        /\ (200 <= Status /\ Status <= 399) =>
              IF builder.typed
              THEN \/ result.tag = "Ok" /\ result.form = "Decoded"
                   \/ /\ result.tag = "Err" /\ result.variant = "Custom"
                      /\ result.message = DecodeRun(Body).msg
              ELSE result = OkString(Body)
        /\ Status >= 400 => result.tag = "Err"

\* Status 399 returned the body.
C5_Witness ==
    QueryAnswered /\ ~builder.typed /\ Status = 399 /\ result = OkString(Body)

\* A Query call that got a response with a status of 400 or more.
QueryFailed == QueryAnswered /\ Status >= 400

\* The places of "}{" in the body, and the body up to the first "}" that a "{"
\* follows (the whole body when there is none).
Boundaries == {i \in 1..(Len(Body) - 1) : Body[i] = RB /\ Body[i + 1] = LB}
FirstObject ==
    IF Boundaries = {} THEN Body
    ELSE SubSeq(Body, 1, CHOOSE i \in Boundaries : \A j \in Boundaries : i <= j)

\* The string under key of a parsed object, if there is one.
StringOf(parsed, key) == AsStr(JGet(Unwrap(parsed), <<key>>))
HttpError == ErrCustom(<<"HTTP ", ToString(Status), ": ">> \o Body)

C7_AggregatesUnauthorized ==
    EndpointAnswered /\ builder.kind = "Aggregates" /\ Status = 403
        /\ Body = BodyUnauthorized =>
        result = ErrApiError(403, <<"unauthorized">>, Some(<<"abc123">>))

\* C8: a failed Query call whose body has a "}{" parses the body up to the
\* first "}" that a "{" follows, and only that: the two-object body gives
\* the message "bad ticker", a body of three objects the first one's
\* message; a body without "}{" is parsed whole.
C8_TruncatesAtFirstBoundary ==
    QueryFailed =>
        /\ Boundaries = {} => (result.variant = "ApiError" <=> IsSome(FromStr(Body)))
        /\ Boundaries # {} =>
             LET first == CHOOSE i \in Boundaries : \A j \in Boundaries : i <= j
                 prefix == FromStr(SubSeq(Body, 1, first))
             IN /\ result.variant = "ApiError" <=> IsSome(prefix)
                /\ IsSome(prefix) /\ IsSome(StringOf(prefix, "error")) =>
                     result.message = Unwrap(StringOf(prefix, "error"))
        /\ Body = BodyDouble => result = ErrApiError(Status, <<"bad ticker">>, None)
        /\ Body = BodyTriple => result = ErrApiError(Status, <<"first">>, None)

\* The two-object body gave "bad ticker".
C8_Witness ==
    /\ QueryFailed /\ Body = BodyDouble
    /\ result = ErrApiError(Status, <<"bad ticker">>, None)

\* C9: with no API key, get fails with MissingApiKey on every builder.
C9_MissingApiKey ==
    pc = "done" /\ ~IsSome(api_key) => result = ErrMissingApiKey

\* C10: a call hands at most one request to the transport; once the
\* transport has answered, the call is over with that one request sent; a
\* transport failure comes back as the transport's own error, and an
\* ApiError carries the status of the one response.
C10_OneGetNoRetry ==
    /\ Len(sent) <= 1
    /\ pc = "awaiting" => Len(sent) = 1 /\ response = None
    /\ pc = "done" /\ IsSome(response) =>
         /\ Len(sent) = 1
         /\ ~Unwrap(response).ok => result = ErrTransport(Unwrap(response).err)
         /\ result.variant = "ApiError" => result.status = Status
    /\ pc = "done" /\ call = None /\ ~IsSome(response) =>
         sent = <<>> /\ result.tag = "Err"

\* A transport failure came back from a Query and from an endpoint builder.
C10_Witness ==
    /\ pc = "done" /\ IsSome(response) /\ ~Unwrap(response).ok
    /\ Len(sent) = 1 /\ result = ErrTransport("timeout")

(* -------------------- the URL handed to the transport ------------------ *)

\* Reading a query string back, as a server does (form_urlencoded::parse):
\* the text after the first "?" up to a "#", cut at each "&", each piece cut
\* at its first "=", "+" read as a space and %XX as its byte.
ByteParse(tok) ==
    CASE tok = "+" -> " "
      [] tok = "%26" -> "&"
      [] tok = "%3D" -> "="
      [] tok = "%3F" -> "?"
      [] tok = "%23" -> "#"
      [] tok = "%2B" -> "+"
      [] tok = "%25" -> "%"
      [] OTHER -> tok
UrlDecode(text) == [i \in 1..Len(text) |-> ByteParse(text[i])]

FirstOf(text, tok) ==
    IF \E i \in 1..Len(text) : text[i] = tok
    THEN CHOOSE i \in 1..Len(text) :
            text[i] = tok /\ \A j \in 1..(i - 1) : text[j] # tok
    ELSE 0
Before(text, tok) ==
    IF FirstOf(text, tok) = 0 THEN text ELSE SubSeq(text, 1, FirstOf(text, tok) - 1)
After(text, tok) ==
    IF FirstOf(text, tok) = 0 THEN <<>>
    ELSE SubSeq(text, FirstOf(text, tok) + 1, Len(text))

ParsePair(piece) == <<UrlDecode(Before(piece, "=")), UrlDecode(After(piece, "="))>>
RECURSIVE SplitPairs(_)
SplitPairs(text) ==
    IF text = <<>> THEN <<>>
    ELSE (IF Before(text, "&") = <<>> THEN <<>>
          ELSE <<ParsePair(Before(text, "&"))>>) \o SplitPairs(After(text, "&"))
ParsedPairs(url) == SplitPairs(Before(After(url, "?"), "#"))

\* The values a server reads under a name, in order.
ValuesOf(pairs, name) ==
    LET Named(p) == p[1] = <<name>>
        named == SelectSeq(pairs, Named)
    IN [i \in 1..Len(named) |-> named[i][2]]

\* The step in which get hands a URL to the transport.
Sends == pc = "accumulating" /\ pc' = "awaiting" /\ Len(sent') = 1
QuerySends == Sends /\ builder.kind = "Query"
EndpointSends == Sends /\ builder.kind \in EndpointKinds

\* C11: a request is handed to the transport only with a key set, and the
\* URL's query string, read back, has the parameter apiKey with the
\* client's key as its one value.
C11_ApiKeyInEveryUrl ==
    [][Sends =>
         /\ IsSome(api_key)
         /\ ValuesOf(ParsedPairs(sent'[1]), ApiKeyName) = <<Unwrap(api_key)>>]_vars

\* The (name, value) pairs a builder holds when get runs, in the order they
\* were supplied, the key included; the value is None for an absent optional,
\* and of a SortOrder its String.
TextOf(value) == IF value.t = "null" THEN None ELSE Some(value.s)
FieldText(kind, f, o) ==
    IF IsSome(o) /\ FieldType(kind, f) = "SortOrder"
    THEN Some(SortOrderIntoString(Unwrap(o)))
    ELSE o
SuppliedPairs ==
    IF builder.kind = "Query"
    THEN [i \in 1..Len(builder.params) |->
            <<builder.params[i][1], TextOf(builder.params[i][2])>>]
         \o <<<<ApiKeyName, api_key>>>>
    ELSE <<<<ApiKeyName, api_key>>>>
         \o [i \in 1..Len(KindFields(builder.kind)) |->
               <<KindFields(builder.kind)[i],
                 FieldText(builder.kind, KindFields(builder.kind)[i],
                           Field(builder.fields, KindFields(builder.kind)[i]))>>]
SuppliedNames == {SuppliedPairs[i][1] : i \in 1..Len(SuppliedPairs)}
\* The values supplied under a name, in order, the absent ones left out.
SuppliedValues(name) ==
    LET Given(p) == p[1] = name /\ IsSome(p[2])
        given == SelectSeq(SuppliedPairs, Given)
    IN [i \in 1..Len(given) |-> Unwrap(given[i][2])]
TimesSupplied(name) ==
    Cardinality({i \in 1..Len(SuppliedPairs) : SuppliedPairs[i][1] = name})

\* C12: the query string of the URL, read back, yields the supplied names
\* and values: every pair read back is a supplied name with a value supplied
\* under it, a name supplied once with a value is read back with exactly
\* that value, and a name supplied once with None is not read back at all;
\* on a Query and on every endpoint builder.
C12_QueryStringRoundTrip ==
    [][Sends =>
         LET parsed == ParsedPairs(sent'[1])
         IN /\ \A i \in 1..Len(parsed) :
                 \E name \in SuppliedNames :
                    /\ parsed[i][1] = <<name>>
                    /\ parsed[i][2] \in SeqToSet(SuppliedValues(name))
            /\ \A name \in SuppliedNames :
                 TimesSupplied(name) = 1 =>
                    ValuesOf(parsed, name) = SuppliedValues(name)]_vars

\* C13: param and params only append to the parameter list, and the query
\* string a Query sends holds every supplied pair: under each name the
\* values supplied under it, as many and in the same order.
C13_DuplicatesPreserved ==
    [][/\ IsQuery /\ pc' = "accumulating" /\ builder'.params # builder.params =>
            /\ Len(builder'.params) > Len(builder.params)
            /\ SubSeq(builder'.params, 1, Len(builder.params)) = builder.params
       /\ QuerySends =>
            \A name \in SuppliedNames :
               ValuesOf(ParsedPairs(sent'[1]), name) = SuppliedValues(name)]_vars

\* C14: a step that changes the decoder of a Query or the processor of an
\* endpoint builder changes nothing else of the builder, and get on the
\* converted builder checks and sends what it would have without the
\* conversion.
C14_ConversionFrame ==
    [][/\ IsQuery /\ pc' = "accumulating" /\ builder'.typed # builder.typed =>
            /\ [builder' EXCEPT !.typed = builder.typed] = builder
            /\ PreChecks(builder', api_key) = PreChecks(builder, api_key)
       /\ IsEndpoint /\ pc' = "accumulating"
            /\ builder'.processor # builder.processor =>
            /\ [builder' EXCEPT !.processor = builder.processor] = builder
            /\ PreChecks(builder', api_key) = PreChecks(builder, api_key)]_vars

\* A Query that was given a decoder after its required and allowed names
\* were marked (require and optional exist only before with_decoder).
C14_Witness ==
    /\ pc = "accumulating" /\ builder.kind = "Query" /\ builder.typed
    /\ builder.required = {"cik"} /\ builder.allowed = {"cik", "limit"}
    /\ Len(builder.params) = 2

\* An endpoint call with the Decoder processor that was answered 200.
Decoded200 ==
    EndpointAnswered /\ builder.processor = "Decoder" /\ Status = 200

\* The fields of Agg and the JSON keys they are read from.
AggKeys ==
    {<<"open", "o">>, <<"high", "h">>, <<"low", "l">>, <<"close", "c">>,
     <<"volume", "v">>, <<"vwap", "vw">>, <<"timestamp", "t">>,
     <<"transactions", "n">>, <<"otc", "otc">>}
AbsentOrNull(obj, key) ==
    ~IsSome(JGet(obj, <<key>>)) \/ Unwrap(JGet(obj, <<key>>)).t = "null"
\* The results field of a body that is a JSON object, if it has one.
ResultsOf(body) ==
    IF IsSome(FromStr(body)) THEN JGet(Unwrap(FromStr(body)), <<"results">>)
    ELSE None
IsJsonObject(body) == IsSome(FromStr(body)) /\ Unwrap(FromStr(body)).t = "obj"
MissingField(key) == ErrCustom(<<"Decode error: ", "missing field ", key>>)

TableAnswered == EndpointAnswered /\ builder.processor = "Table"

\* C16: the Table processor never makes a table of a JSON body that has no
\* top-level results field; when it takes the response as a success
\* (status 200) it returns Custom("Missing 'results' field") for such a
\* body, {"not_results": []} among them, and goes on to build the table
\* for a body that has results.
C16_TableMissingResults ==
    TableAnswered =>
        /\ IsSome(FromStr(Body)) /\ ~IsSome(ResultsOf(Body)) =>
              /\ result.tag = "Err"
              /\ Status = 200 => result = ErrCustom(<<"Missing 'results' field">>)
        /\ Status = 200 /\ IsSome(ResultsOf(Body)) =>
              \/ /\ result.tag = "Ok" /\ result.form = "DataFrame"
                 /\ IsSome(TableRows(Unwrap(ResultsOf(Body))))
                 /\ result.rows = Unwrap(TableRows(Unwrap(ResultsOf(Body))))
              \/ /\ result.variant = "Custom"
                 /\ result.message[1] = "Polars error: "

\* The body {"not_results": []} at status 200 gave the error.
C16_Witness ==
    /\ TableAnswered /\ Status = 200 /\ Body = BodyNoResults
    /\ result = ErrCustom(<<"Missing 'results' field">>)

\* C17: what a processor returns depends on the status and the body of the
\* response alone: any response with the status and the body of the one
\* the call got, processed by the call's processor, gives the result the
\* call returned, the same in every field.
C17_PureInStatusAndBody ==
    EndpointAnswered =>
        \A id \in RequestIds :
            Process(builder.processor, DecoderFn(builder.kind),
                    HttpResponse(Status, Body, id)) = result

(* ------------------------------ the tool layer ------------------------- *)

\* The request of the call under way, its tool name and its params.
Request == Unwrap(call)
ToolName == AsStr(JGet(Request, <<"tool">>))
ToolParams == Unwrap(JGet(Request, <<"params">>))
IsCallEndpoint ==
    /\ IsSome(call) /\ ToolName = Some(<<"call_endpoint">>)
    /\ IsSome(JGet(Request, <<"params">>))
\* call_endpoint has returned Ok after the transport answered.
CallEndpointOk ==
    /\ pc = "done" /\ IsCallEndpoint
    /\ IsSome(response) /\ Unwrap(response).ok /\ result.tag = "Ok"

\* m holds the fields of the object v other than results, each with its
\* value, and nothing else.
IsRestOf(m, v) ==
    /\ m.t = "obj" /\ v.t = "obj"
    /\ JGet(m, <<"results">>) = None
    /\ \A k \in (SeqToSet(v.keys) \cup SeqToSet(m.keys)) \ {<<"results">>} :
           JGet(m, k) = JGet(v, k)
OnlyResults(v) == v.t = "obj" /\ v.keys = << <<"results">> >>

\* C18: a call_endpoint that succeeds returns data = the results field of
\* the response and metadata = the other fields of the response; without a
\* results field data is the whole body and metadata is None; with results
\* and no other field metadata is None.
C18_EnvelopeSplit ==
    CallEndpointOk =>
        LET v == Unwrap(FromStr(Unwrap(response).body))
        IN /\ IsSome(FromStr(Unwrap(response).body))
           /\ result.form = "ToolDataFrame"
           /\ IF ~IsSome(JGet(v, <<"results">>))
              THEN result.data = v /\ result.metadata = None
              ELSE /\ result.data = Unwrap(JGet(v, <<"results">>))
                   /\ IF OnlyResults(v) THEN result.metadata = None
                      ELSE /\ IsSome(result.metadata)
                           /\ IsRestOf(Unwrap(result.metadata), v)

\* The module, endpoint and arguments members of the params of the call.
Module == StrParam(ToolParams, "module")
EndpointName == StrParam(ToolParams, "endpoint")
Arguments == JGet(ToolParams, <<"arguments">>)

\* The module is one list_modules names, and the endpoint one
\* list_endpoints names for it.
KnownModule ==
    IsSome(Module) /\ \E m \in SeqToSet(ListModules) : Unwrap(Module) = <<m>>
KnownEndpoint ==
    /\ KnownModule /\ IsSome(EndpointName)
    /\ \E e \in SeqToSet(ModuleEndpoints(Unwrap(Module)[1])) :
          Unwrap(EndpointName) = <<e>>

\* The arguments fit the parameter struct of the endpoint: an object with
\* every required field, each of its type, and every optional field absent,
\* null or of its type.  Tickers/types has no parameter struct.
FitsField(args, field, optional) ==
    IF ~IsSome(JGet(args, <<field[1]>>)) THEN optional
    ELSE \/ optional /\ Unwrap(JGet(args, <<field[1]>>)).t = "null"
         \/ HasType(Unwrap(JGet(args, <<field[1]>>)), field[2])
ArgumentsFit ==
    \/ Unwrap(EndpointName) = <<"types">>
    \/ LET kind == EndpointKind(Unwrap(EndpointName)[1])
           args == Unwrap(Arguments)
       IN /\ args.t = "obj"
          /\ \A n \in 1..Len(RequiredParams(kind)) :
                FitsField(args, RequiredParams(kind)[n], FALSE)
          /\ \A n \in 1..Len(OptionalParams(kind)) :
                FitsField(args, OptionalParams(kind)[n], TRUE)
Routed == KnownModule /\ KnownEndpoint /\ IsSome(Arguments) /\ ArgumentsFit

\* C19: a call_endpoint whose module is unknown, whose endpoint is unknown
\* for the module, whose module, endpoint or arguments member is missing, or
\* whose arguments do not deserialize into the parameter struct returns an
\* error without a GET; a GET is issued only for a call that was routed and
\* whose arguments deserialized.
C19_NoGetUnlessRouted ==
    (IsCallEndpoint /\ pc # "idle") =>
        /\ ~Routed => pc = "done" /\ result.tag = "Err" /\ sent = <<>>
        /\ sent # <<>> => Routed

\* Aggs/aggregates without its required "to": an error and no GET, with a
\* key set.
C19_Witness ==
    /\ IsCallEndpoint /\ pc = "done" /\ IsSome(api_key)
    /\ Module = Some(<<"Aggs">>) /\ EndpointName = Some(<<"aggregates">>)
    /\ IsSome(Arguments)
    /\ Unwrap(Arguments).keys
         = << <<"ticker">>, <<"multiplier">>, <<"timespan">>, <<"from">> >>
    /\ \A n \in 1..4 :
          FitsField(Unwrap(Arguments), RequiredParams("Aggregates")[n], FALSE)
    /\ ~Routed
    /\ result = ErrCustom(<<"missing field ", "to">>)
    /\ sent = <<>>

\* The call names a tool, and the tool is one of the ids of list_tools.
NamesTool == IsSome(call) /\ pc # "idle" /\ IsSome(ToolName)
Listed == \E id \in SeqToSet(ListTools) : Unwrap(ToolName) = <<id>>
UnknownTool == ErrCustom(<<"Unknown tool: ">> \o Unwrap(ToolName))

\* C20: list_tools returns four tools, with the ids list_modules,
\* list_endpoints, get_endpoint_schema and call_endpoint, and call_tool
\* dispatches exactly these: a call that names a listed id is dispatched,
\* and a call that names anything else returns Custom("Unknown tool: <name>").
C20_DispatchesWhatIsListed ==
    /\ ListTools = <<"list_modules", "list_endpoints", "get_endpoint_schema",
                     "call_endpoint">>
    /\ NamesTool =>
          IF Listed THEN result # UnknownTool
          ELSE pc = "done" /\ result = UnknownTool

(* ------------------------------ common types --------------------------- *)

\* The strings a sort order is made of: asc, desc, and others that the
\* conversion keeps as Custom.
SortOrderStrings ==
    {<<"asc">>, <<"desc">>, <<"Timestamp">>, <<"ASC">>, <<"timestamp">>, <<>>,
     <<"a", "&", "b">>}

\* The SortOrder fields of a builder kind.
SortOrderFields(kind) ==
    {f \in SeqToSet(KindFields(kind)) : FieldType(kind, f) = "SortOrder"}

\* The string a sort order of the arguments of call_endpoint stands for.
ArgumentSortOrder(v) == IF v.t = "obj" THEN v.items[1].s ELSE v.s

\* The step in which call_endpoint hands a URL to the transport.
ToolSends == pc = "idle" /\ pc' = "awaiting" /\ IsSome(call')

\* C21: every string converted to SortOrder and back to String is unchanged;
\* and a request whose builder holds a SortOrder (set by sort or order, or
\* given in the arguments of call_endpoint) sends, under the name of that
\* field, the String of that SortOrder as the one value: asc for Asc, desc
\* for Desc, and s itself for Custom(s).
C21_SortOrderVerbatim ==
    [][/\ \A s \in SortOrderStrings : SortOrderIntoString(SortOrderFrom(s)) = s
       /\ EndpointSends =>
            \A f \in SortOrderFields(builder.kind) :
               IsSome(Field(builder.fields, f)) =>
                  ValuesOf(ParsedPairs(sent'[1]), f)
                    = <<SortOrderIntoString(Unwrap(Field(builder.fields, f)))>>
       /\ ToolSends =>
            LET arguments ==
                    Unwrap(JGet(Unwrap(JGet(Unwrap(call'), <<"params">>)),
                                <<"arguments">>))
            IN \A f \in SortOrderFields(builder'.kind) :
                  (/\ arguments.t = "obj"
                   /\ IsSome(JGet(arguments, <<f>>))
                   /\ Unwrap(JGet(arguments, <<f>>)).t # "null") =>
                     ValuesOf(ParsedPairs(sent'[1]), f)
                       = <<ArgumentSortOrder(Unwrap(JGet(arguments, <<f>>)))>>]_vars

\* The variant the claim gives each name: the seven full names and the
\* abbreviations min, hr, d, wk, mo, q, yr.
TimespanNamed ==
    [minute |-> "Minute", min |-> "Minute", hour |-> "Hour", hr |-> "Hour",
     day |-> "Day", d |-> "Day", week |-> "Week", wk |-> "Week",
     month |-> "Month", mo |-> "Month", quarter |-> "Quarter", q |-> "Quarter",
     year |-> "Year", yr |-> "Year"]

\* Strings that name no timespan.
NotTimespans ==
    {<<s>> : s \in {"fortnight", "Fortnight", "FORTNIGHT", "weeks", "days",
                    "m", "", " day", "1"}}

IsTimespanFromStr == conv.op = "Timespan::from_str"

\* C22: Timespan::from_str of a full name or of one of the abbreviations min,
\* hr, d, wk, mo, q, yr, in any letter case, is Ok of the matching variant;
\* of a string that names no timespan it is an error, never a variant; and
\* every error is Custom("Invalid timespan: <value>") with the string that
\* was passed.
C22_TimespanFromStr ==
    IsTimespanFromStr =>
       /\ ToLowercase(conv.input)[1] \in DOMAIN TimespanNamed =>
             /\ conv.output.ok
             /\ conv.output.val = TimespanNamed[ToLowercase(conv.input)[1]]
       /\ conv.input \in NotTimespans => ~conv.output.ok
       /\ ~conv.output.ok =>
             conv.output.err = ErrCustom(<<"Invalid timespan: ">> \o conv.input)

\* A decimal numeral as u32::from_str reads one: digits, after at most one
\* leading "+"; and the number it denotes.
DigitChars == <<"0", "1", "2", "3", "4", "5", "6", "7", "8", "9">>
DigitsOf(s) == IF s # <<>> /\ Head(s) = "+" THEN Tail(s) ELSE s
IsNumeral(s) ==
    /\ DigitsOf(s) # <<>>
    /\ \A i \in 1..Len(DigitsOf(s)) : DigitsOf(s)[i] \in SeqToSet(DigitChars)
Denoted(s) ==
    LET d == DigitsOf(s)
        upto[i \in 0..Len(d)] ==
            IF i = 0 THEN 0
            ELSE upto[i - 1] * 10
                 + (CHOOSE k \in 0..9 : DigitChars[k + 1] = d[i])
    IN upto[Len(d)]
U32Max == 2 ^ U32Bits - 1

IsLimitFromStr == conv.op = "Limit::from" /\ conv.input.type = "str"

\* C23: Limit::from of a string always returns a Limit: Some(n) if and only
\* if the string is a numeral of a number n that fits a u32, and None
\* otherwise; and the Option<u32> of the Limit is Some(n) for Some(n) and None
\* for None.
C23_LimitFromStr ==
    IsLimitFromStr =>
       /\ conv.output.limit.variant \in {"Some", "None"}
       /\ IF IsNumeral(conv.input.s) /\ Denoted(conv.input.s) <= U32Max
          THEN /\ conv.output.limit.variant = "Some"
               /\ conv.output.limit.v = Denoted(conv.input.s)
          ELSE conv.output.limit.variant = "None"
       /\ conv.output.option
            = IF conv.output.limit.variant = "Some"
              THEN Some(conv.output.limit.v) ELSE None

\* Limit::from("10") was called and returned Some(10); so was
\* Limit::from("abc"), which returns None, at another time.
C23_Witness ==
    /\ IsLimitFromStr /\ conv.input.s = <<"1", "0">>
    /\ conv.output.limit = [variant |-> "Some", v |-> 10]
    /\ conv.output.option = Some(10)

IsLimitFromInteger == conv.op = "Limit::from" /\ conv.input.type # "str"

\* C27: Limit::from of an integer of any of the six types is always Some,
\* never None, and holds the integer reduced modulo 2^32 (here 2^U32Bits): a
\* negative one and one above u32::MAX wrap.
C27_LimitFromInteger ==
    IsLimitFromInteger =>
       /\ conv.output.limit.variant = "Some"
       /\ conv.output.limit.v \in 0..U32Max
       /\ \E k \in -(2 ^ U32Bits)..(2 ^ U32Bits) :
             conv.output.limit.v = conv.input.n + k * (U32Max + 1)

\* Limit::from(-1i32) returned Some(u32::MAX).
C27_Witness ==
    /\ IsLimitFromInteger /\ conv.input.type = "i32" /\ conv.input.n = -1
    /\ conv.output.limit = [variant |-> "Some", v |-> U32Max]

\* The seven full names, with their variants.
TimespanFullNames ==
    [minute |-> "Minute", hour |-> "Hour", day |-> "Day", week |-> "Week",
     month |-> "Month", quarter |-> "Quarter", year |-> "Year"]

IsTableAggregates == conv.op = "table::aggs::aggregates"

\* C30: rest::table::aggs::aggregates always makes a Timespan of its timespan
\* string: the variant of a full name in any letter case, and Day of every
\* other string, whether Timespan::from_str accepts it (as another variant,
\* for an abbreviation) or rejects it.
C30_TableAggregatesTimespan ==
    IsTableAggregates =>
       /\ conv.output \in {TimespanFullNames[n] : n \in DOMAIN TimespanFullNames}
       /\ conv.output
            = IF ToLowercase(conv.input)[1] \in DOMAIN TimespanFullNames
              THEN TimespanFullNames[ToLowercase(conv.input)[1]]
              ELSE "Day"

\* aggregates was called with "wk", which Timespan::from_str reads as Week,
\* and made Day of it.
C30_Witness ==
    /\ IsTableAggregates /\ conv.input = <<"wk">> /\ conv.output = "Day"
    /\ TimespanFromStr(conv.input).ok /\ TimespanFromStr(conv.input).val = "Week"

(* ----------------------------- the limit setter ------------------------ *)

\* The Option<u32> an argument of limit converts to, the u32 as its decimal
\* text.
LimitOf(argument) ==
    IF argument.type = "str"
    THEN IF IsNumeral(argument.s) /\ Denoted(argument.s) <= U32Max
         THEN Some(<<ToString(Denoted(argument.s))>>)
         ELSE None
    ELSE Some(<<ToString(argument.n % (U32Max + 1))>>)

\* A call of limit on an endpoint builder.
CallsLimit == IsEndpoint /\ pc' = "accumulating" /\ limits' # limits

\* No String field of the builder holds a "&": none spells a parameter of
\* its own into the query string.
PlainFields == \A p \in builder.fields : "&" \notin SeqToSet(p[2])

\* C28: a call of limit leaves in the builder's limit the Option<u32> its
\* argument converts to, whatever the limit was before, and changes no other
\* field; and the URL of get has the limit of the last call as its one limit
\* parameter, or none if the last call left None.
C28_LastLimitWins ==
    [][/\ CallsLimit =>
            /\ Field(builder'.fields, "limit") = LimitOf(limits'[Len(limits')])
            /\ {q \in builder'.fields : q[1] # "limit"}
                 = {q \in builder.fields : q[1] # "limit"}
       /\ EndpointSends /\ limits # <<>> /\ PlainFields =>
            ValuesOf(ParsedPairs(sent'[1]), "limit")
              = IF IsSome(LimitOf(limits[Len(limits)]))
                THEN <<Unwrap(LimitOf(limits[Len(limits)]))>>
                ELSE <<>>]_vars

\* limit("10") and then limit("abc") were called on an Aggregates builder,
\* and it holds no limit.
C28_Witness ==
    /\ pc = "accumulating" /\ builder.kind = "Aggregates"
    /\ limits = <<[type |-> "str", s |-> <<"1", "0">>, n |-> 0],
                  [type |-> "str", s |-> <<"a", "b", "c">>, n |-> 0]>>
    /\ Field(builder.fields, "limit") = None

(* ------------------------ the Financials operations -------------------- *)

\* The URLs the Financials builder made by constructor kind sends with these
\* filters and this key.
FinancialsUrls(kind, fields, key) ==
    {o.url : o \in {c \in PreChecks([NewEndpoint(kind) EXCEPT !.fields = fields],
                                    key) : c.send}}

\* The URLs call_endpoint sends for this Financials operation and these
\* arguments.
FinancialsCalls(endpoint, arguments, key) ==
    {o.out.url :
       o \in {c \in CallEndpoint(Json(<< <<"module", JStr(<<"Financials">>)>>,
                                         <<"endpoint", JStr(<<endpoint>>)>>,
                                         <<"arguments", arguments>> >>), key) :
                c.out.send}}

\* The parameters of the call_endpoint under way name a Financials operation.
CallsFinancials(request) ==
    /\ AsStr(JGet(request, <<"tool">>)) = Some(<<"call_endpoint">>)
    /\ IsSome(JGet(request, <<"params">>))
    /\ StrParam(Unwrap(JGet(request, <<"params">>)), "module")
         = Some(<<"Financials">>)

ListedBy(m, e) ==
    LET returned == ListEndpoints(Json(<< <<"module", JStr(m)>> >>))
        Names(v) == {v.items[n].items[1].s : n \in 1..Len(v.items)}
    IN /\ returned.tag = "Ok"
       /\ e \in Names(Unwrap(JGet(Unwrap(FromStr(returned.text)),
                                   <<"endpoints">>)))

\* build_endpoint has an arm for (m, e): it fails with neither of its
\* two unknown-name errors.
UnknownPair(m, e) ==
    {ErrCustom(<<"Unknown module: ">> \o m)}
    \cup (IF m = <<>> THEN {}
          ELSE {ErrCustom(<<"Unknown ", m[1], " endpoint: ">> \o e)})
Recognises(m, e) ==
    \A a \in {Json(<<>>), JNull} : BuildEndpoint(m, e, a).err \notin UnknownPair(m, e)

\* The explicit schema of an operation without parameters.
NoParamsSchema ==
    Json(<< <<"type", JStr(<<"object">>)>>, <<"properties", Json(<<>>)>>,
            <<"description", JStr(<<"No parameters required">>)>> >>)

\* A call of this tool has been answered, and its params hold these members
\* as strings.
Discovers(tool, members) ==
    /\ IsSome(call) /\ pc # "idle" /\ ToolName = Some(<<tool>>)
    /\ IsSome(JGet(Request, <<"params">>))
    /\ \A name \in members : IsSome(StrParam(ToolParams, name))

\* C25: list_endpoints(m) returns Ok iff m is a module of list_modules, and
\* Custom("Unknown module: m") otherwise; for a module m and endpoint e,
\* get_endpoint_schema(m, e) returns Ok iff list_endpoints(m) lists e, iff
\* build_endpoint has an arm for (m, e), iff the output schema of (m, e) is
\* not empty; call_endpoint fails with an unknown-name error iff the pair is
\* not listed; and get_endpoint_schema(Tickers, types) is the schema with
\* description "No parameters required".
C25_DiscoveryAgrees ==
    /\ Discovers("list_endpoints", {"module"}) =>
          IF KnownModule THEN result.tag = "Ok"
          ELSE result = ErrCustom(<<"Unknown module: ">> \o Unwrap(Module))
    /\ Discovers("get_endpoint_schema", {"module", "endpoint"}) =>
          LET m == Unwrap(Module)
              e == Unwrap(EndpointName)
          IN /\ result.tag = "Ok" <=> ListedBy(m, e)
             /\ Recognises(m, e) <=> ListedBy(m, e)
             /\ GetOutputSchema(m, e) # <<>> <=> ListedBy(m, e)
             /\ (m = <<"Tickers">> /\ e = <<"types">>) =>
                   result = OkText(JsonToString(NoParamsSchema))
    /\ (Discovers("call_endpoint", {"module", "endpoint"}) /\ IsSome(Arguments)) =>
          (result \in UnknownPair(Unwrap(Module), Unwrap(EndpointName))
             <=> ~ListedBy(Unwrap(Module), Unwrap(EndpointName)))

\* get_endpoint_schema(Tickers, types) has returned Ok.
C25_Witness ==
    /\ Discovers("get_endpoint_schema", {"module", "endpoint"})
    /\ Module = Some(<<"Tickers">>) /\ EndpointName = Some(<<"types">>)
    /\ result.tag = "Ok"

(* --------------------------- the shared client ------------------------- *)

\* What get returns when it runs alone on this builder, with this key and
\* this answer of the transport.
Alone(b, key, answer) ==
    {IF o.send THEN Finish(Consumed(b), Unwrap(answer)) ELSE o.err :
       o \in PreChecks(b, key)}

\* No step changes the Polygon an Arc points to.
ArcsKept == \A a \in 1..Len(arcs) : arcs'[a] = arcs[a]

\* C24: whatever the other threads do, a get on the shared client returns
\* what it returns alone with the same builder, key and transport answer;
\* a request in flight went to the transport of the client its thread
\* holds, with that client's key; and no step of a get changes the key or
\* the transport of any client.
C24_ExecutesIndependent ==
    [][/\ \A t \in Threads :
            /\ threads'[t].pc = "done" =>
                  threads'[t].result
                    \in Alone(threads'[t].builder,
                              arcs[threads'[t].handle].api_key,
                              threads'[t].response)
            /\ threads'[t].pc = "awaiting" =>
                  \E o \in PreChecks(threads'[t].builder,
                                     arcs[threads'[t].handle].api_key) :
                     /\ o.send
                     /\ threads'[t].sent
                          = <<<<arcs[threads'[t].handle].client, o.url>>>>
            /\ threads'[t].pc \in {"awaiting", "done"} =>
                  threads'[t].handle = threads[t].handle
       /\ ArcsKept]_vars

\* Two threads hold the same client; each sent a request while the other's
\* was in flight or done, and the two got different answers and results.
C24_Witness ==
    /\ threads[1].handle # 0 /\ threads[1].handle = threads[2].handle
    /\ threads[1].pc = "done" /\ threads[2].pc = "done"
    /\ threads[1].sent # <<>> /\ threads[2].sent # <<>>
    /\ threads[1].builder # threads[2].builder
    /\ threads[1].response # threads[2].response
    /\ threads[1].result # threads[2].result

(* --------------------------- the static instance ----------------------- *)

\* The steps of thread t: the swap of initialize, the load of instance and
\* the return of instance.
Swaps(t) == threads[t].pc = "initialize" /\ threads'[t].pc = "idle"
Loads(t) == threads[t].pc = "idle" /\ threads'[t].pc = "instance"
Returns(t) == threads[t].pc = "instance" /\ threads'[t].pc = "idle"

\* C26: the Arc the static instance holds changes only in the swap of an
\* initialize, which installs the Arc of its argument and returns the Arc
\* held immediately before; until an initialize has swapped the instance is
\* the key-less default; instance returns the Arc held when it loaded, whose
\* Polygon is the default or one given to initialize, key and transport
\* together; and no step changes the Polygon of an Arc or the Arc another
\* thread holds.
C26_AtomicSwap ==
    [][/\ \A t \in Threads :
            /\ Swaps(t) =>
                  /\ STATIC_INSTANCE' = threads[t].guard
                  /\ arcs[STATIC_INSTANCE'] \in Polygons
                  /\ threads'[t].previous = STATIC_INSTANCE
            /\ Loads(t) => threads'[t].guard = STATIC_INSTANCE
            /\ Returns(t) =>
                  /\ threads'[t].handle = threads[t].guard
                  /\ arcs[threads'[t].handle] \in {PolygonDefault} \cup Polygons
            /\ ~Returns(t) => threads'[t].handle = threads[t].handle
       /\ (~\E t \in Threads : Swaps(t)) => STATIC_INSTANCE' = STATIC_INSTANCE
       /\ (\A t \in Threads : threads[t].previous = 0) =>
            arcs[STATIC_INSTANCE] = PolygonDefault
       /\ ArcsKept]_vars

\* Thread 1 holds the default client it got from instance, the static
\* instance has since been replaced twice, and thread 2, whose initialize
\* came second, was returned the client the first one installed; thread 1
\* loaded again and has not yet returned.
C26_Witness ==
    /\ threads[1].handle = 1 /\ arcs[1] = PolygonDefault
    /\ STATIC_INSTANCE = 3 /\ threads[2].previous = 2
    /\ arcs[2] # arcs[3]
    /\ threads[1].pc = "instance" /\ threads[1].guard = 3
====
